---- MODULE Spec2Model ----
(***************************************************************************)
(* Model of the forge-ai backend: the line-indexed patch helpers of        *)
(* backend/chat.py, the edit_document endpoint and the execute_ai_tool     *)
(* endpoint of backend/server.py.                                          *)
(*                                                                         *)
(* A text is a sequence of one-character strings; "\n" is the newline.     *)
(***************************************************************************)
EXTENDS Integers, Sequences, FiniteSets, TLC

VARIABLES
  call,       \* the applicator call under test (applicator runs only)
  projects,   \* db.projects: project id -> record
  files,      \* db.files: file id -> record
  tasks,      \* db.tasks: task id -> record
  clock,      \* datetime.now(): one tick per handled request
  nextId,     \* number of ObjectIds generated by insert_one so far
  resp,       \* the response to the latest execute-tool request
  edit,       \* the edit-document request in flight
  oracle,     \* the prompts sent to the text-generation oracle, in order
  fault,      \* the insert_one call of the latest create_tasks request that raised (0: none)
  twin,       \* the finished edit request a second one is compared with (twin runs only)
  share_links,  \* db.share_links: token -> share link or invite
  accepting   \* the accept_invite requests in flight: user -> where the handler is

(***************************************************************************)
(* Bounds                                                                  *)
(***************************************************************************)
MaxLen == 5        \* longest original text of the applicator runs
MaxNewLen == 1     \* longest inserted / replacing text of the applicator runs
MaxOps == 2        \* execute-tool requests handled in one behaviour
MaxItems == 2      \* longest tasks array of a create_tasks request
MaxLineVal == 5    \* largest line number of a locate reply
MaxInvites == 1    \* invites created in one behaviour

(***************************************************************************)
(* Python str / list primitives used by the helpers                        *)
(***************************************************************************)
NL == "\n"
Chars == {"a", "b", NL}

RECURSIVE TextsOfLen(_)
TextsOfLen(n) ==
  IF n = 0 THEN {<<>>}
  ELSE {Append(t, c) : t \in TextsOfLen(n - 1), c \in Chars}

TextsUpTo(n) == UNION {TextsOfLen(k) : k \in 0..n}

\* index of the first newline of t, or 0 when t has none
RECURSIVE FirstNL(_, _)
FirstNL(t, i) ==
  IF i > Len(t) THEN 0
  ELSE IF t[i] = NL THEN i
  ELSE FirstNL(t, i + 1)

\* str.split('\n'): always at least one line, "" splits into [""]
RECURSIVE SplitLines(_)
SplitLines(t) ==
  LET i == FirstNL(t, 1) IN
  IF i = 0 THEN <<t>>
  ELSE <<SubSeq(t, 1, i - 1)>> \o SplitLines(SubSeq(t, i + 1, Len(t)))

\* '\n'.join(lines): the empty list joins to ""
RECURSIVE JoinLines(_)
JoinLines(lines) ==
  IF Len(lines) = 0 THEN <<>>
  ELSE IF Len(lines) = 1 THEN lines[1]
  ELSE lines[1] \o <<NL>> \o JoinLines(Tail(lines))

\* a slice bound as Python normalises it: negative counts from the end,
\* then clamped to [0, n]
SliceIndex(i, n) ==
  IF i < 0 THEN (IF i + n < 0 THEN 0 ELSE i + n)
  ELSE IF i > n THEN n
  ELSE i

\* seq[lo:hi] for integer lo, hi
PySlice(seq, lo, hi) ==
  SubSeq(seq, SliceIndex(lo, Len(seq)) + 1, SliceIndex(hi, Len(seq)))

PyMax(a, b) == IF b > a THEN b ELSE a
PyMin(a, b) == IF b < a THEN b ELSE a

(***************************************************************************)
(* backend/chat.py: apply_insert, apply_replace                            *)
(***************************************************************************)
\* slip: the text after the insertion point starts one line too late
apply_insert_skip(original_content, insert_line, new_content) ==
  LET lines == SplitLines(original_content) IN
  IF insert_line <= 0 THEN new_content \o <<NL>> \o original_content
  ELSE IF insert_line >= Len(lines) THEN original_content \o <<NL>> \o new_content
  ELSE LET before == JoinLines(PySlice(lines, 0, insert_line))
           after == JoinLines(PySlice(lines, insert_line + 1, Len(lines)))
       IN before \o <<NL>> \o new_content \o <<NL>> \o after

\* slip: the first test is < 0, so line 0 takes the middle branch
apply_insert_lt(original_content, insert_line, new_content) ==
  LET lines == SplitLines(original_content) IN
  IF insert_line < 0 THEN new_content \o <<NL>> \o original_content
  ELSE IF insert_line >= Len(lines) THEN original_content \o <<NL>> \o new_content
  ELSE LET before == JoinLines(PySlice(lines, 0, insert_line))
           after == JoinLines(PySlice(lines, insert_line, Len(lines)))
       IN before \o <<NL>> \o new_content \o <<NL>> \o after

\* slip: the second test is > len(lines), so the last line takes the middle branch
apply_insert_gt(original_content, insert_line, new_content) ==
  LET lines == SplitLines(original_content) IN
  IF insert_line <= 0 THEN new_content \o <<NL>> \o original_content
  ELSE IF insert_line > Len(lines) THEN original_content \o <<NL>> \o new_content
  ELSE LET before == JoinLines(PySlice(lines, 0, insert_line))
           after == JoinLines(PySlice(lines, insert_line, Len(lines)))
       IN before \o <<NL>> \o new_content \o <<NL>> \o after

apply_insert(original_content, insert_line, new_content) ==
  LET lines == SplitLines(original_content) IN
  IF insert_line <= 0 THEN new_content \o <<NL>> \o original_content
  ELSE IF insert_line >= Len(lines) THEN original_content \o <<NL>> \o new_content
  ELSE LET before == JoinLines(PySlice(lines, 0, insert_line))
           after == JoinLines(PySlice(lines, insert_line, Len(lines)))
       IN before \o <<NL>> \o new_content \o <<NL>> \o after

\* the indices apply_replace slices the line list with (chat.py 193-194)
start_idx(start_line) == PyMax(0, start_line - 1)
end_idx(lines, end_line) == PyMin(Len(lines), end_line)

\* slip: before and after are joined in even when they are empty
apply_replace_noskip(original_content, start_line, end_line, new_content) ==
  LET lines == SplitLines(original_content)
      before == JoinLines(PySlice(lines, 0, start_idx(start_line)))
      after == JoinLines(PySlice(lines, end_idx(lines, end_line), Len(lines)))
  IN JoinLines(<<before, new_content, after>>)

apply_replace(original_content, start_line, end_line, new_content) ==
  LET lines == SplitLines(original_content)
      before == JoinLines(PySlice(lines, 0, start_idx(start_line)))
      after == JoinLines(PySlice(lines, end_idx(lines, end_line), Len(lines)))
      parts == (IF before # <<>> THEN <<before>> ELSE <<>>)
               \o <<new_content>>
               \o (IF after # <<>> THEN <<after>> ELSE <<>>)
  IN JoinLines(parts)

(***************************************************************************)
(* The record store and Python dict primitives                             *)
(***************************************************************************)
None == "<None>"

\* dict.get(key, default)
Get(d, k, default) == IF k \in DOMAIN d THEN d[k] ELSE default

\* truth value of an id argument: None and "" are falsy
Truthy(v) == v # None /\ v # ""

\* update_one(..., {"$set": upd}) applied to one record
SetFields(rec, upd) ==
  [k \in DOMAIN rec \cup DOMAIN upd |-> IF k \in DOMAIN upd THEN upd[k] ELSE rec[k]]

\* insert_one: the store with the record under a new key
InsertOne(coll, id, rec) ==
  [k \in DOMAIN coll \cup {id} |-> IF k = id THEN rec ELSE coll[k]]

\* the ObjectId generated by the n-th insert_one
NewId(n) == "n" \o ToString(n)

\* ObjectId(s) raises InvalidId for a string that is not an object id
MalformedIds == {"bad"}

\* find_one({"_id": project_id, "user_id": current_user.id}) finds a project
ProjectOwned(project_id, user) ==
  /\ project_id \in DOMAIN projects
  /\ projects[project_id].user_id = user

\* slip: the ownership check is left out
BelongsTo_any(record, project_id) == TRUE

\* record["project_id"] == request.project_id
BelongsTo(record, project_id) == record.project_id = project_id

TouchProject(project_id, now) ==
  [projects EXCEPT ![project_id].last_edited = now]

SeedProjects ==
  [p \in {"p1", "p2", "p3"} |->
     [user_id |-> IF p = "p3" THEN "u2" ELSE "u1", last_edited |-> 0]]

SeedFile(pid, name, type, content) ==
  [project_id |-> pid, name |-> name, category |-> "Docs", type |-> type,
   content |-> content, priority |-> 5, tags |-> <<>>, pinned |-> FALSE,
   created_at |-> 0, last_edited |-> 0]

SeedFiles ==
  [f \in {"f1", "f2"} |->
     IF f = "f1" THEN SeedFile("p1", "a.md", "doc", <<"a", NL, "b">>)
     ELSE SeedFile("p2", "b.jsx", "mockup", <<"b">>)]

SeedTask(pid, title) ==
  [project_id |-> pid, title |-> title, description |-> "", status |-> "todo",
   priority |-> "medium", importance |-> "medium", difficulty |-> "medium",
   quadrant |-> "q4", linked_files |-> <<>>, due_date |-> None, created_at |-> 0]

SeedTasks ==
  [t \in {"t1", "t2"} |-> IF t = "t1" THEN SeedTask("p1", "T1") ELSE SeedTask("p2", "T2")]

NoResp == [seq |-> 0, status |-> 0]

\* db.share_links is empty and no accept_invite request is in flight
NoLinks == [k \in {} |-> None]
NoAccepting == [u \in {} |-> None]

NoCall == [fn |-> "none", original_content |-> <<>>, line1 |-> 0, line2 |-> 0,
           new_content |-> <<>>, returned |-> FALSE, ret |-> <<>>]

(***************************************************************************)
(* backend/server.py: execute_ai_tool                                      *)
(***************************************************************************)
\* who asks and for which project: the owner for a project of theirs, another
\* user for that project, the owner for a project that does not exist
Callers == {<<"u1", "p1">>, <<"u1", "p2">>, <<"u2", "p1">>, <<"u1", "p9">>}

HttpError(req, status, detail) ==
  [seq |-> clock + 1, request |-> req, status |-> status, success |-> FALSE,
   detail |-> detail]

ToolOk(req, result, message) ==
  [seq |-> clock + 1, request |-> req, status |-> 200, success |-> TRUE,
   tool_name |-> req.tool_name, result |-> result, message |-> message]

Request(tool_name, args, project_id, user) ==
  [tool_name |-> tool_name, arguments |-> args, project_id |-> project_id,
   current_user |-> user]

\* the request is answered without any write to the store
Reply(r) ==
  /\ resp' = r
  /\ clock' = clock + 1
  /\ UNCHANGED <<projects, files, tasks, nextId>>

ProjectNotFound(req) == Reply(HttpError(req, 404, "Project not found"))

\* dict literals of the requests
EmptyDict == [k \in {} |-> None]
Entry(k, v) == [x \in {k} |-> v]
Opt(k, vals) == {EmptyDict} \cup {Entry(k, v) : v \in vals}

\* the arguments tried with a caller: all of argSet for a project the caller
\* owns, the empty dict otherwise (the ownership check comes first)
ArgsFor(caller, argSet) ==
  IF ProjectOwned(caller[2], caller[1]) THEN argSet ELSE {EmptyDict}

CreateFileArgs ==
  {SetFields(n, c) : n \in Opt("name", {"x.md"}), c \in Opt("content", {<<"b", NL, "a">>})}
  \cup {SetFields(Entry("category", "Notes"), Entry("doc_type", "spec"))}

\* create_document (server.py 1451-1485)
ExecCreateDocument ==
  /\ clock < MaxOps
  /\ \E caller \in Callers :
     \E args \in ArgsFor(caller, CreateFileArgs) :
       LET user == caller[1]
           project_id == caller[2]
           req == Request("create_document", args, project_id, user)
           now == clock + 1
           new_file == [project_id |-> project_id,
                        name |-> Get(args, "name", "Untitled.md"),
                        category |-> Get(args, "category", "Docs"),
                        type |-> Get(args, "doc_type", "doc"),
                        content |-> Get(args, "content", <<>>),
                        priority |-> 5, tags |-> <<>>, pinned |-> FALSE,
                        created_at |-> now, last_edited |-> now]
           inserted_id == NewId(nextId + 1)
       IN IF ~ProjectOwned(project_id, user) THEN ProjectNotFound(req)
          ELSE /\ files' = InsertOne(files, inserted_id, new_file)
               /\ nextId' = nextId + 1
               /\ projects' = TouchProject(project_id, now)
               /\ resp' = ToolOk(req,
                            [file_id |-> inserted_id, name |-> new_file.name,
                             category |-> new_file.category, type |-> new_file.type,
                             content |-> new_file.content],
                            <<"Created document", new_file.name>>)
               /\ clock' = now
               /\ UNCHANGED tasks

\* create_mockup (server.py 1606-1640)
ExecCreateMockup ==
  /\ clock < MaxOps
  /\ \E caller \in Callers :
     \E args \in ArgsFor(caller, CreateFileArgs) :
       LET user == caller[1]
           project_id == caller[2]
           req == Request("create_mockup", args, project_id, user)
           now == clock + 1
           new_file == [project_id |-> project_id,
                        name |-> Get(args, "name", "Untitled.jsx"),
                        category |-> "Mockups",
                        type |-> "mockup",
                        content |-> Get(args, "content", <<>>),
                        priority |-> 5, tags |-> <<"ai-generated">>, pinned |-> FALSE,
                        created_at |-> now, last_edited |-> now]
           inserted_id == NewId(nextId + 1)
       IN IF ~ProjectOwned(project_id, user) THEN ProjectNotFound(req)
          ELSE /\ files' = InsertOne(files, inserted_id, new_file)
               /\ nextId' = nextId + 1
               /\ projects' = TouchProject(project_id, now)
               /\ resp' = ToolOk(req,
                            [file_id |-> inserted_id, name |-> new_file.name,
                             category |-> new_file.category, type |-> new_file.type,
                             content |-> new_file.content],
                            <<"Created UI mockup", new_file.name>>)
               /\ clock' = now
               /\ UNCHANGED tasks

\* file ids that name no file: none, empty, malformed, unknown, a task's id
NoFileIdArgs == Opt("file_id", {"", "bad", "f9", "t1"})

ModifyDocumentArgs ==
  NoFileIdArgs
  \cup {SetFields(Entry("file_id", f), c) :
          f \in {"f1", "f2", "n1"}, c \in Opt("new_content", {<<"b", NL, "a">>})}
  \cup {SetFields(Entry("file_id", "f1"), Entry("file_name", "y.md"))}

\* slip: a file that was edited since it was created is not overwritten
ModifyDocument_versioned(caller, args) ==
  LET req == Request("modify_document", args, caller[2], caller[1]) IN
  IF Get(args, "file_id", None) \in DOMAIN files
     /\ files[Get(args, "file_id", None)].last_edited > 0
  THEN Reply(HttpError(req, 409, "File was modified"))
  ELSE /\ files' = [files EXCEPT ![args.file_id] = SetFields(@, [content |-> args.new_content])]
       /\ resp' = ToolOk(req, [file_id |-> args.file_id], "Updated document")
       /\ clock' = clock + 1
       /\ UNCHANGED <<projects, tasks, nextId>>

\* modify_document (server.py 1487-1522) asked by caller with arguments args
ModifyDocument(caller, args) ==
  LET user == caller[1]
      project_id == caller[2]
      req == Request("modify_document", args, project_id, user)
      now == clock + 1
      file_id == Get(args, "file_id", None)
  IN IF ~ProjectOwned(project_id, user) THEN ProjectNotFound(req)
     ELSE IF ~Truthy(file_id) THEN Reply(HttpError(req, 400, "file_id is required"))
     ELSE IF file_id \in MalformedIds THEN Reply(HttpError(req, 500, "str(e)"))
     ELSE IF file_id \notin DOMAIN files THEN Reply(HttpError(req, 404, "File not found"))
     ELSE LET existing_file == files[file_id] IN
       IF ~BelongsTo(existing_file, project_id)
       THEN Reply(HttpError(req, 403, "File does not belong to this project"))
       ELSE LET update_data ==
                  [content |-> Get(args, "new_content", Get(existing_file, "content", <<>>)),
                   last_edited |-> now]
                name == Get(args, "file_name", existing_file.name)
            IN /\ files' = [files EXCEPT ![file_id] = SetFields(@, update_data)]
               /\ projects' = TouchProject(project_id, now)
               /\ resp' = ToolOk(req,
                            [file_id |-> file_id, name |-> name,
                             content |-> update_data.content],
                            <<"Updated document", name>>)
               /\ clock' = now
               /\ UNCHANGED <<tasks, nextId>>

\* a modify_document request arrives
ExecModifyDocument ==
  /\ clock < MaxOps
  /\ \E caller \in Callers :
     \E args \in ArgsFor(caller, ModifyDocumentArgs) : ModifyDocument(caller, args)

Levels == {"low", "medium", "high"}

\* the task items of create_tasks requests: every priority / importance
\* pair with a title, and one item with no key at all
TitledItems ==
  {SetFields(SetFields(Entry("title", "T"), p), i) :
     p \in Opt("priority", Levels), i \in Opt("importance", Levels)}

TaskItems == TitledItems \cup {EmptyDict}

\* the items batches of two and more are made of
BatchItems ==
  {EmptyDict,
   SetFields(Entry("title", "T"), SetFields(Entry("priority", "high"), Entry("importance", "high")))}

RECURSIVE Batches(_)
Batches(n) ==
  IF n = 1 THEN {<<i>> : i \in TaskItems}
  ELSE {Append(b, i) : b \in Batches(n - 1) \cap Seq(BatchItems), i \in BatchItems}

CreateTasksArgs ==
  {EmptyDict, Entry("tasks", <<>>)}
  \cup {Entry("tasks", b) : b \in UNION {Batches(n) : n \in 1..MaxItems}}

\* slip: the final else is left out, so the "q2" of the record literal stays
Quadrant_q2(task_item) ==
  IF Get(task_item, "priority", None) = "high" /\ Get(task_item, "importance", None) = "high"
  THEN "q1"
  ELSE IF Get(task_item, "importance", None) = "high" THEN "q2"
  ELSE IF Get(task_item, "priority", None) = "high" THEN "q3"
  ELSE "q2"

\* the quadrant create_tasks assigns (server.py 1546-1554)
Quadrant(task_item) ==
  IF Get(task_item, "priority", None) = "high" /\ Get(task_item, "importance", None) = "high"
  THEN "q1"
  ELSE IF Get(task_item, "importance", None) = "high" THEN "q2"
  ELSE IF Get(task_item, "priority", None) = "high" THEN "q3"
  ELSE "q4"

\* the record create_tasks stores for one item (server.py 1532-1554)
NewTask(task_item, project_id, now) ==
  [project_id |-> project_id,
   title |-> Get(task_item, "title", "Untitled Task"),
   description |-> Get(task_item, "description", ""),
   status |-> "todo",
   priority |-> Get(task_item, "priority", "medium"),
   importance |-> Get(task_item, "importance", "medium"),
   difficulty |-> "medium",
   quadrant |-> Quadrant(task_item),
   linked_files |-> <<>>,
   due_date |-> None,
   created_at |-> now]

\* the loop of create_tasks: db.tasks after the first n items were inserted
RECURSIVE InsertTasks(_, _, _, _, _)
InsertTasks(coll, items, n, project_id, now) ==
  IF n = 0 THEN coll
  ELSE InsertOne(InsertTasks(coll, items, n - 1, project_id, now),
                 NewId(nextId + n), NewTask(items[n], project_id, now))

\* created_tasks, the list create_tasks returns
CreatedTasks(items, project_id, now) ==
  [n \in 1..Len(items) |->
     LET new_task == NewTask(items[n], project_id, now) IN
     [id |-> NewId(nextId + n), title |-> new_task.title,
      priority |-> new_task.priority, importance |-> new_task.importance]]

\* the insert_one calls of a create_tasks request that may raise: none (0),
\* or the one of item fault_at of a batch made of BatchItems
InsertFaults(tasks_data) ==
  IF tasks_data \in Seq(BatchItems) THEN 0..Len(tasks_data) ELSE {0}

\* slip: the inserts of a failed batch are undone
TasksAfterFault_rollback(coll, items, fault_at, project_id, now) == coll

\* db.tasks when the insert_one of item fault_at raised: the loop stored the
\* items before it, and the handler's except clauses undo nothing
\* (server.py 1531-1556, 1645-1649)
TasksAfterFault(coll, items, fault_at, project_id, now) ==
  InsertTasks(coll, items, fault_at - 1, project_id, now)

\* create_tasks (server.py 1524-1572)
ExecCreateTasks ==
  /\ clock < MaxOps
  /\ \E caller \in Callers :
     \E args \in ArgsFor(caller, CreateTasksArgs) :
     \E fault_at \in InsertFaults(Get(args, "tasks", <<>>)) :
       LET user == caller[1]
           project_id == caller[2]
           req == Request("create_tasks", args, project_id, user)
           now == clock + 1
           tasks_data == Get(args, "tasks", <<>>)
       IN IF ~ProjectOwned(project_id, user)
          THEN ProjectNotFound(req) /\ fault' = 0
          ELSE IF Len(tasks_data) = 0
          THEN Reply(HttpError(req, 400, "tasks array is required")) /\ fault' = 0
          ELSE IF fault_at > 0
          THEN /\ tasks' = TasksAfterFault(tasks, tasks_data, fault_at, project_id, now)
               /\ nextId' = nextId + fault_at - 1
               /\ resp' = HttpError(req, 500, "str(e)")
               /\ clock' = now
               /\ fault' = fault_at
               /\ UNCHANGED <<projects, files>>
          ELSE /\ tasks' = InsertTasks(tasks, tasks_data, Len(tasks_data), project_id, now)
               /\ nextId' = nextId + Len(tasks_data)
               /\ resp' = ToolOk(req,
                            [tasks |-> CreatedTasks(tasks_data, project_id, now),
                             count |-> Len(tasks_data)],
                            <<"Created task(s)", Len(tasks_data)>>)
               /\ clock' = now
               /\ fault' = 0
               /\ UNCHANGED <<projects, files>>

\* task ids that name no task: none, empty, malformed, unknown, a file's id
NoTaskIdArgs == Opt("task_id", {"", "bad", "t9", "f1"})

UpdatesArgs ==
  {EmptyDict,
   Entry("status", "done"),
   SetFields(Entry("priority", "high"), Entry("quadrant", "q3")),
   SetFields(Entry("project_id", "p2"), SetFields(Entry("created_at", 99), Entry("owner", "u2"))),
   SetFields(Entry("title", "T3"), Entry("project_id", "p2"))}

ModifyTaskArgs ==
  NoTaskIdArgs
  \cup {SetFields(Entry("task_id", t), u) :
          t \in {"t1", "t2", "n1"}, u \in Opt("updates", UpdatesArgs)}
  \cup {SetFields(Entry("task_id", "t1"), Entry("task_title", "T0"))}

\* slip: the owning project is updatable
allowed_keys_project ==
  {"title", "description", "status", "priority", "importance", "difficulty", "quadrant",
   "project_id"}

allowed_keys ==
  {"title", "description", "status", "priority", "importance", "difficulty", "quadrant"}

\* modify_task (server.py 1574-1604)
ExecModifyTask ==
  /\ clock < MaxOps
  /\ \E caller \in Callers :
     \E args \in ArgsFor(caller, ModifyTaskArgs) :
       LET user == caller[1]
           project_id == caller[2]
           req == Request("modify_task", args, project_id, user)
           now == clock + 1
           task_id == Get(args, "task_id", None)
       IN IF ~ProjectOwned(project_id, user) THEN ProjectNotFound(req)
          ELSE IF ~Truthy(task_id) THEN Reply(HttpError(req, 400, "task_id is required"))
          ELSE IF task_id \in MalformedIds THEN Reply(HttpError(req, 500, "str(e)"))
          ELSE IF task_id \notin DOMAIN tasks THEN Reply(HttpError(req, 404, "Task not found"))
          ELSE LET existing_task == tasks[task_id] IN
            IF ~BelongsTo(existing_task, project_id)
            THEN Reply(HttpError(req, 403, "Task does not belong to this project"))
            ELSE LET updates == Get(args, "updates", EmptyDict)
                     update_data == [k \in DOMAIN updates \cap allowed_keys |-> updates[k]]
                     title == Get(args, "task_title", existing_task.title)
                 IN /\ tasks' = IF DOMAIN update_data # {}
                                THEN [tasks EXCEPT ![task_id] = SetFields(@, update_data)]
                                ELSE tasks
                    /\ resp' = ToolOk(req,
                                 [task_id |-> task_id, title |-> title,
                                  updates |-> update_data],
                                 <<"Updated task", title>>)
                    /\ clock' = now
                    /\ UNCHANGED <<projects, files, nextId>>

UnknownToolNames == {"delete_task", "rewrite_document"}

\* slip: the project is touched before the tool name is looked at
ExecUnknownTool_touch ==
  /\ clock < MaxOps
  /\ \E caller \in Callers, tool_name \in UnknownToolNames :
       LET user == caller[1]
           project_id == caller[2]
           req == Request(tool_name, EmptyDict, project_id, user)
       IN IF ~ProjectOwned(project_id, user) THEN ProjectNotFound(req)
          ELSE /\ projects' = TouchProject(project_id, clock + 1)
               /\ resp' = HttpError(req, 400, <<"Unknown tool", tool_name>>)
               /\ clock' = clock + 1
               /\ UNCHANGED <<files, tasks, nextId>>

\* any other tool name (server.py 1642-1643)
ExecUnknownTool ==
  /\ clock < MaxOps
  /\ \E caller \in Callers, tool_name \in UnknownToolNames :
       LET user == caller[1]
           project_id == caller[2]
           req == Request(tool_name, EmptyDict, project_id, user)
       IN IF ~ProjectOwned(project_id, user) THEN ProjectNotFound(req)
          ELSE Reply(HttpError(req, 400, <<"Unknown tool", tool_name>>))

(***************************************************************************)
(* backend/server.py: edit_document                                        *)
(***************************************************************************)
\* str.strip(): leading and trailing whitespace removed
Whitespace == {NL, " "}

RECURSIVE LStrip(_)
LStrip(t) == IF Len(t) > 0 /\ t[1] \in Whitespace THEN LStrip(Tail(t)) ELSE t

RECURSIVE RStrip(_)
RStrip(t) ==
  IF Len(t) > 0 /\ t[Len(t)] \in Whitespace THEN RStrip(SubSeq(t, 1, Len(t) - 1)) ELSE t

Strip(t) == RStrip(LStrip(t))

\* format_content_with_lines (chat.py 165-170)
format_content_with_lines(content) ==
  LET lines == SplitLines(content) IN
  JoinLines([i \in 1..Len(lines) |-> <<ToString(i), ":", " ">> \o lines[i]])

EditToolNames ==
  {"rewrite_document", "rewrite_mockup", "insert_in_document", "insert_in_mockup",
   "replace_in_document", "replace_in_mockup", "delete_document", "delete_mockup"}

\* tool_name.endswith("_mockup")
EndsWithMockup(tool_name) ==
  tool_name \in {"rewrite_mockup", "insert_in_mockup", "replace_in_mockup", "delete_mockup"}

\* slip: any other tool name is handled as a rewrite
BaseToolName_rewrite(tool_name) ==
  CASE tool_name = "insert_in_mockup" -> "insert_in_document"
    [] tool_name = "replace_in_mockup" -> "replace_in_document"
    [] tool_name \in {"insert_in_document", "replace_in_document"} -> tool_name
    [] OTHER -> "rewrite_document"

\* slip: the mockup tool names are not normalised
BaseToolName_keep(tool_name) == tool_name

\* tool_name.replace("_mockup", "_document")
BaseToolName(tool_name) ==
  CASE tool_name = "rewrite_mockup" -> "rewrite_document"
    [] tool_name = "insert_in_mockup" -> "insert_in_document"
    [] tool_name = "replace_in_mockup" -> "replace_in_document"
    [] tool_name = "delete_mockup" -> "delete_document"
    [] OTHER -> tool_name

\* tool_name.replace("_document", "").replace("_mockup", "").replace("_in", "")
EditType(tool_name) ==
  CASE tool_name \in {"rewrite_document", "rewrite_mockup"} -> "rewrite"
    [] tool_name \in {"insert_in_document", "insert_in_mockup"} -> "insert"
    [] tool_name \in {"replace_in_document", "replace_in_mockup"} -> "replace"
    [] OTHER -> "delete"

\* JSON values of a locate reply: a number is kept as twice its value, so
\* that 0.5 and 1.5 are values; "float" marks a number json.loads returns
\* as a float
JInt(n) == [t |-> "int", twice |-> 2 * n]
JFloat(h) == [t |-> "float", twice |-> h]
JNull == [t |-> "null", twice |-> 0]
JStr == [t |-> "str", twice |-> 0]

LineVals == (0 - 1)..MaxLineVal

JVals == {JInt(n) : n \in LineVals} \cup {JNull, JStr, JFloat(1), JFloat(3), JFloat(12)}

\* what the oracle's reply to a locate prompt can be: its text is wrapped in
\* a fenced block ("block"), in a fence without a line break ("inline") or
\* in nothing, and holds no JSON ("text"), JSON that is no object, or an
\* object
OptJ(k) == {EmptyDict} \cup {Entry(k, v) : v \in JVals}

InsertObjects == [kind : {"object"}, fields : OptJ("insert_after_line")]

ReplaceObjects ==
  [kind : {"object"},
   fields : {SetFields(a, b) : a \in OptJ("start_line"), b \in OptJ("end_line")}]

NonObjects ==
  [kind : {"text", "array", "number"}, fields : {EmptyDict}]

LocateReplies(objects) ==
  [fence : {"none", "block"}, body : objects \cup NonObjects]
  \cup [fence : {"inline"}, body : {[kind |-> "object", fields |-> EmptyDict]}]

\* the raw texts a generate or rewrite prompt is answered with
GenerateReplies == {<<"b">>, <<NL, "b", NL, "a", NL>>, <<>>}

\* an oracle call raises, returns a response without text, or returns text
OracleOutcomes(texts) ==
  {[kind |-> "raise", text |-> <<>>], [kind |-> "no_text", text |-> <<>>]}
  \cup {[kind |-> "text", text |-> t] : t \in texts}

\* the try block of server.py 1797-1802 / 1878-1882: the object json.loads
\* returns, or "raise" when a statement of the block raises
Raised == [kind |-> "raise", fields |-> EmptyDict]

ParseReply(outcome) ==
  IF outcome.kind = "no_text" THEN Raised            \* None.strip()
  ELSE IF outcome.text.fence = "inline" THEN Raised  \* split("\n", 1)[1]
  ELSE IF outcome.text.body.kind = "text" THEN Raised  \* json.loads
  ELSE outcome.text.body

\* slip: a reply that does not parse puts the insertion at the top
ParseInsertLine_top(outcome, original_content) ==
  LET n == Len(SplitLines(original_content))
      step1_result == ParseReply(outcome)
  IN IF step1_result.kind = "raise" THEN JInt(0)
     ELSE IF step1_result.kind # "object" THEN JInt(0)
     ELSE Get(step1_result.fields, "insert_after_line", JInt(n))

\* server.py 1797-1806
ParseInsertLine(outcome, original_content) ==
  LET n == Len(SplitLines(original_content))
      step1_result == ParseReply(outcome)
  IN IF step1_result.kind = "raise" THEN JInt(n)
     ELSE IF step1_result.kind # "object" THEN JInt(n)   \* no .get
     ELSE Get(step1_result.fields, "insert_after_line", JInt(n))

\* slip: the default end_line is the last index, not the line count
ParseRange_short(outcome, original_content) ==
  LET n == Len(SplitLines(original_content))
      step1_result == ParseReply(outcome)
  IN IF step1_result.kind = "raise" THEN <<JInt(1), JInt(n - 1)>>
     ELSE IF step1_result.kind # "object" THEN <<JInt(1), JInt(n - 1)>>
     ELSE <<Get(step1_result.fields, "start_line", JInt(1)),
            Get(step1_result.fields, "end_line", JInt(n - 1))>>

\* server.py 1878-1888
ParseRange(outcome, original_content) ==
  LET n == Len(SplitLines(original_content))
      step1_result == ParseReply(outcome)
  IN IF step1_result.kind = "raise" THEN <<JInt(1), JInt(n)>>
     ELSE IF step1_result.kind # "object" THEN <<JInt(1), JInt(n)>>
     ELSE <<Get(step1_result.fields, "start_line", JInt(1)),
            Get(step1_result.fields, "end_line", JInt(n))>>

IsNumber(jv) == jv.t \in {"int", "float"}

\* the outcome of a call: the text returned, or a TypeError raised
Returned(text) == [raised |-> FALSE, text |-> text]
TypeError == [raised |-> TRUE, text |-> <<>>]

\* apply_insert called with the parsed value: TypeError when a comparison or
\* a slice raises it
ApplyInsertValue(original_content, jv, new_content) ==
  LET n == Len(SplitLines(original_content)) IN
  IF ~IsNumber(jv) THEN TypeError
  ELSE IF jv.t = "int"
  THEN Returned(apply_insert(original_content, jv.twice \div 2, new_content))
  ELSE IF jv.twice <= 0 THEN Returned(apply_insert(original_content, 0, new_content))
  ELSE IF jv.twice >= 2 * n THEN Returned(apply_insert(original_content, n, new_content))
  ELSE TypeError

\* max(0, start_line - 1) and min(len(lines), end_line) used as slice bounds
\* (server.py 1892, chat.py 193-197): start_idx and end_idx, or raised when
\* the arithmetic, the comparison or the slice raises TypeError
SliceBounds(n, sv, ev) ==
  IF ~IsNumber(sv) \/ ~IsNumber(ev) THEN [raised |-> TRUE, start_idx |-> 0, end_idx |-> 0]
  ELSE LET startFloat == sv.t = "float" /\ sv.twice - 2 > 0
           endFloat == ev.t = "float" /\ ev.twice < 2 * n
       IN IF startFloat \/ endFloat
          THEN [raised |-> TRUE, start_idx |-> 0, end_idx |-> 0]
          ELSE [raised |-> FALSE,
                start_idx |-> IF sv.t = "int" THEN PyMax(0, (sv.twice \div 2) - 1) ELSE 0,
                end_idx |-> IF ev.t = "int" THEN PyMin(n, ev.twice \div 2) ELSE n]

\* apply_replace called with the parsed values
ApplyReplaceValue(original_content, sv, ev, new_content) ==
  LET n == Len(SplitLines(original_content)) IN
  IF SliceBounds(n, sv, ev).raised THEN TypeError
  ELSE Returned(apply_replace(original_content,
                              IF sv.t = "int" THEN sv.twice \div 2 ELSE 1,
                              IF ev.t = "int" THEN ev.twice \div 2 ELSE n,
                              new_content))

EditFileArgs == {"f1", "f2", "f9"}

\* pc: where the handler is; replies: what the oracle calls returned so far;
\* lines: the line numbers parsed from the locate reply
NoEdit ==
  [pc |-> "idle", request |-> EmptyDict, original_content |-> <<>>,
   is_mockup |-> FALSE, replies |-> <<>>, lines |-> <<>>,
   response |-> [status |-> 0]]

EditError(status, detail) == [status |-> status, success |-> FALSE, detail |-> detail]

\* server.py 1940-1951
EditOk(request, original_content, modified_content, edit_summary) ==
  [status |-> 200, success |-> TRUE, tool_name |-> request.tool_name,
   result |-> [file_id |-> request.file_id, file_name |-> request.file_name,
               original_content |-> original_content,
               modified_content |-> modified_content,
               edit_type |-> EditType(request.tool_name),
               edit_summary |-> edit_summary]]

\* slip: a successful edit is written to the file before it is returned
Respond_persist(state, response) ==
  /\ edit' = [state EXCEPT !.pc = "done", !.response = response]
  /\ files' = IF response.status = 200
              THEN [files EXCEPT ![state.request.file_id].content =
                                   response.result.modified_content]
              ELSE files
  /\ UNCHANGED <<oracle, projects, tasks, nextId>>

\* the handler returns or raises: the request ends with this response
Respond(state, response) ==
  /\ edit' = [state EXCEPT !.pc = "done", !.response = response]
  /\ UNCHANGED <<oracle, projects, files, tasks, nextId>>

\* slip: an exception is swallowed and the original content is returned
Fail_swallow(state, detail) ==
  Respond(state, [status |-> 200, success |-> TRUE, tool_name |-> state.request.tool_name,
                  result |-> [file_id |-> state.request.file_id,
                              file_name |-> state.request.file_name,
                              original_content |-> state.original_content,
                              modified_content |-> state.original_content,
                              edit_type |-> "none", edit_summary |-> detail]])

\* except Exception: HTTPException(500, str(e)) (server.py 1955-1959)
Fail(state, detail) == Respond(state, EditError(500, detail))

\* slip: the prompt is sent again after the first answer
Generate_twice(prompt) ==
  /\ oracle' = oracle \o <<prompt, prompt>>
  /\ UNCHANGED <<projects, files, tasks, nextId>>

\* genai_client.models.generate_content(contents = prompt)
Generate(prompt) ==
  /\ oracle' = Append(oracle, prompt)
  /\ UNCHANGED <<projects, files, tasks, nextId>>

\* the request arrives: validation, then the first prompt (server.py 1700-1763,
\* 1774-1794, 1855-1875, 1937-1938)
EditStart ==
  /\ edit.pc = "idle"
  /\ \E caller \in Callers, file_id \in EditFileArgs, tool_name \in EditToolNames :
       LET request == [tool_name |-> tool_name, file_id |-> file_id,
                       file_name |-> "a.md", instructions |-> "do",
                       project_id |-> caller[2], current_user |-> caller[1]]
           received == [edit EXCEPT !.request = request]
       IN IF ~ProjectOwned(request.project_id, request.current_user)
          THEN Respond(received, EditError(404, "Project not found"))
          ELSE IF file_id \notin DOMAIN files
          THEN Respond(received, EditError(404, "File not found"))
          ELSE IF ~BelongsTo(files[file_id], request.project_id)
          THEN Respond(received, EditError(403, "File does not belong to this project"))
          ELSE LET file == files[file_id]
                   original_content == Get(file, "content", <<>>)
                   is_mockup == EndsWithMockup(tool_name) \/ file.type = "mockup"
                   base_tool_name == BaseToolName(tool_name)
                   started == [received EXCEPT !.original_content = original_content,
                                               !.is_mockup = is_mockup]
               IN IF base_tool_name = "rewrite_document"
                  THEN /\ edit' = [started EXCEPT !.pc = "rewrite"]
                       /\ Generate([step |-> "rewrite", is_mockup |-> is_mockup,
                                    file_name |-> request.file_name,
                                    content |-> original_content,
                                    instructions |-> request.instructions])
                  ELSE IF base_tool_name \in {"insert_in_document", "replace_in_document"}
                  THEN /\ edit' = [started EXCEPT !.pc = "locate"]
                       /\ Generate([step |-> IF base_tool_name = "insert_in_document"
                                             THEN "locate_insert" ELSE "locate_replace",
                                    is_mockup |-> is_mockup,
                                    content |-> format_content_with_lines(original_content),
                                    instructions |-> request.instructions])
                  ELSE Respond(started, EditError(400, <<"Unknown edit tool", tool_name>>))

\* the rewrite call returns (server.py 1760-1766)
RewriteReturns ==
  /\ edit.pc = "rewrite"
  /\ \E outcome \in OracleOutcomes(GenerateReplies) :
       LET got == [edit EXCEPT !.replies = Append(@, outcome)] IN
       IF outcome.kind # "text" THEN Fail(got, "str(e)")
       ELSE Respond(got, EditOk(edit.request, edit.original_content,
                                Strip(outcome.text),
                                <<"completely redesigned", edit.is_mockup>>))

\* the locate call returns: the reply is parsed and the generate prompt is
\* sent (server.py 1796-1843, 1877-1931)
LocateReturns ==
  /\ edit.pc = "locate"
  /\ LET inserting == BaseToolName(edit.request.tool_name) = "insert_in_document"
         n == Len(SplitLines(edit.original_content))
     IN \E outcome \in OracleOutcomes(LocateReplies(IF inserting THEN InsertObjects
                                                     ELSE ReplaceObjects)) :
          LET got == [edit EXCEPT !.replies = Append(@, outcome)] IN
          IF outcome.kind = "raise" THEN Fail(got, "str(e)")
          ELSE IF inserting
          THEN LET insert_line == ParseInsertLine(outcome, edit.original_content) IN
               /\ edit' = [got EXCEPT !.pc = "generate", !.lines = <<insert_line>>]
               /\ Generate([step |-> "generate_insert", is_mockup |-> edit.is_mockup,
                            file_name |-> edit.request.file_name,
                            content |-> edit.original_content,
                            lines |-> <<insert_line>>,
                            instructions |-> edit.request.instructions])
          ELSE LET range == ParseRange(outcome, edit.original_content)
                   bounds == SliceBounds(n, range[1], range[2])
               IN IF bounds.raised THEN Fail([got EXCEPT !.lines = range], "str(e)")
                  ELSE /\ edit' = [got EXCEPT !.pc = "generate", !.lines = range]
                       /\ Generate([step |-> "generate_replace",
                                    is_mockup |-> edit.is_mockup,
                                    file_name |-> edit.request.file_name,
                                    content |-> edit.original_content,
                                    lines |-> range,
                                    content_being_replaced |->
                                      JoinLines(PySlice(SplitLines(edit.original_content),
                                                        bounds.start_idx, bounds.end_idx)),
                                    instructions |-> edit.request.instructions])

\* the generate call returns: the patch is applied (server.py 1845-1847,
\* 1933-1935)
GenerateReturns ==
  /\ edit.pc = "generate"
  /\ \E outcome \in OracleOutcomes(GenerateReplies) :
       LET got == [edit EXCEPT !.replies = Append(@, outcome)] IN
       IF outcome.kind # "text" THEN Fail(got, "str(e)")
       ELSE LET inserting == BaseToolName(edit.request.tool_name) = "insert_in_document"
                new_content == Strip(outcome.text)
                modified_content ==
                  IF inserting
                  THEN ApplyInsertValue(edit.original_content, edit.lines[1], new_content)
                  ELSE ApplyReplaceValue(edit.original_content, edit.lines[1],
                                         edit.lines[2], new_content)
            IN IF modified_content.raised THEN Fail(got, "str(e)")
               ELSE Respond(got, EditOk(edit.request, edit.original_content,
                                        modified_content.text,
                                        <<IF inserting THEN "Inserted after line"
                                          ELSE "Replaced lines",
                                          edit.is_mockup, edit.lines>>))

\* no finished request to compare with
NoTwin == [edit |-> NoEdit, oracle |-> <<>>]

\* the documents edit requests are tried on
EditContents == {<<>>, <<"a">>, <<"a", NL, "b", NL, "a">>, <<"a", NL, NL, "b", NL>>}

EditInit ==
  /\ call = NoCall
  /\ projects = SeedProjects
  /\ \E c \in EditContents : files = [SeedFiles EXCEPT !["f1"].content = c]
  /\ tasks = SeedTasks
  /\ clock = 0
  /\ nextId = 0
  /\ resp = NoResp
  /\ edit = NoEdit
  /\ oracle = <<>>
  /\ fault = 0
  /\ twin = NoTwin
  /\ share_links = NoLinks
  /\ accepting = NoAccepting

EditNext ==
  \/ (EditStart /\ UNCHANGED <<call, clock, resp, fault, twin, share_links, accepting>>)
  \/ (RewriteReturns /\ UNCHANGED <<call, clock, resp, fault, twin, share_links, accepting>>)
  \/ (LocateReturns /\ UNCHANGED <<call, clock, resp, fault, twin, share_links, accepting>>)
  \/ (GenerateReturns /\ UNCHANGED <<call, clock, resp, fault, twin, share_links, accepting>>)

ToolsInit ==
  /\ call = NoCall
  /\ projects = SeedProjects
  /\ files = SeedFiles
  /\ tasks = SeedTasks
  /\ clock = 0
  /\ nextId = 0
  /\ resp = NoResp
  /\ edit = NoEdit
  /\ oracle = <<>>
  /\ fault = 0
  /\ twin = NoTwin
  /\ share_links = NoLinks
  /\ accepting = NoAccepting

ToolsNext ==
  \/ (ExecCreateDocument /\ fault' = 0 /\ UNCHANGED <<call, edit, oracle, twin, share_links, accepting>>)
  \/ (ExecModifyDocument /\ fault' = 0 /\ UNCHANGED <<call, edit, oracle, twin, share_links, accepting>>)
  \/ (ExecCreateTasks /\ UNCHANGED <<call, edit, oracle, twin, share_links, accepting>>)
  \/ (ExecModifyTask /\ fault' = 0 /\ UNCHANGED <<call, edit, oracle, twin, share_links, accepting>>)
  \/ (ExecCreateMockup /\ fault' = 0 /\ UNCHANGED <<call, edit, oracle, twin, share_links, accepting>>)
  \/ (ExecUnknownTool /\ fault' = 0 /\ UNCHANGED <<call, edit, oracle, twin, share_links, accepting>>)

vars == <<call, projects, files, tasks, clock, nextId, resp, edit, oracle, fault, twin, share_links, accepting>>

SpecTools == ToolsInit /\ [][ToolsNext]_vars

SpecEdit == EditInit /\ [][EditNext]_vars

(***************************************************************************)
(* Twin runs of edit_document: a request is handled to its end, then a     *)
(* second request that differs from it in artifact kind only is handled    *)
(* with the same oracle replies                                            *)
(***************************************************************************)
\* the store of the twin runs: f1 (a document) and f2 (a mockup) are files of
\* project p1 with the same content
TwinContents == {<<"a">>, <<"a", NL, "b", NL, "a">>}

TwinInit ==
  /\ call = NoCall
  /\ projects = SeedProjects
  /\ \E c \in TwinContents :
       files = [SeedFiles EXCEPT !["f1"].content = c,
                                 !["f2"].content = c, !["f2"].project_id = "p1"]
  /\ tasks = SeedTasks
  /\ clock = 0
  /\ nextId = 0
  /\ resp = NoResp
  /\ edit = NoEdit
  /\ oracle = <<>>
  /\ fault = 0
  /\ twin = NoTwin
  /\ share_links = NoLinks
  /\ accepting = NoAccepting

\* the tool name of the other artifact kind
TwinTool(tool_name) ==
  CASE tool_name = "rewrite_document" -> "rewrite_mockup"
    [] tool_name = "rewrite_mockup" -> "rewrite_document"
    [] tool_name = "insert_in_document" -> "insert_in_mockup"
    [] tool_name = "insert_in_mockup" -> "insert_in_document"
    [] tool_name = "replace_in_document" -> "replace_in_mockup"
    [] tool_name = "replace_in_mockup" -> "replace_in_document"
    [] tool_name = "delete_document" -> "delete_mockup"
    [] OTHER -> "delete_document"

\* the artifact kind of a request for an existing file (server.py 1721)
TwinKind(request) ==
  EndsWithMockup(request.tool_name) \/ files[request.file_id].type = "mockup"

\* the first request is made by the owner of p1 for f1; the second differs
\* from the finished one in artifact kind only and has been given the
\* replies the finished one was given, in order
TwinFollows ==
  /\ (twin.edit.pc = "idle" /\ edit.pc # "idle")
     => /\ edit.request.project_id = "p1"
        /\ edit.request.current_user = "u1"
        /\ edit.request.file_id = "f1"
  /\ (twin.edit.pc = "done" /\ edit.pc # "idle")
     =>
     /\ edit.request.project_id = twin.edit.request.project_id
     /\ edit.request.current_user = twin.edit.request.current_user
     /\ edit.request.file_id \in DOMAIN files
     /\ edit.request.tool_name
          \in {twin.edit.request.tool_name, TwinTool(twin.edit.request.tool_name)}
     /\ TwinKind(edit.request) # TwinKind(twin.edit.request)
     /\ Len(edit.replies) <= Len(twin.edit.replies)
     /\ edit.replies = SubSeq(twin.edit.replies, 1, Len(edit.replies))

\* the first request has ended after calling the oracle: it is kept, and the
\* handler is free for the second request
TwinSecond ==
  /\ twin.edit.pc = "idle"
  /\ edit.pc = "done"
  /\ Len(oracle) >= 1
  /\ twin' = [edit |-> edit, oracle |-> oracle]
  /\ edit' = NoEdit
  /\ oracle' = <<>>
  /\ UNCHANGED <<call, projects, files, tasks, clock, nextId, resp, fault, share_links, accepting>>

TwinNext ==
  \/ (EditStart /\ UNCHANGED <<call, clock, resp, fault, twin, share_links, accepting>> /\ TwinFollows')
  \/ (RewriteReturns /\ UNCHANGED <<call, clock, resp, fault, twin, share_links, accepting>> /\ TwinFollows')
  \/ (LocateReturns /\ UNCHANGED <<call, clock, resp, fault, twin, share_links, accepting>> /\ TwinFollows')
  \/ (GenerateReturns /\ UNCHANGED <<call, clock, resp, fault, twin, share_links, accepting>> /\ TwinFollows')
  \/ TwinSecond

SpecTwin == TwinInit /\ [][TwinNext]_vars

(***************************************************************************)
(* Two edit requests in flight on one file, each followed by its caller's  *)
(* commit of the modified_content it got back                              *)
(***************************************************************************)
\* update_file (server.py 804-836) asked by user with body file_update
UpdateFile(user, file_id, file_update) ==
  LET req == [tool_name |-> "update_file", file_id |-> file_id,
              arguments |-> file_update, current_user |-> user]
      now == clock + 1
  IN IF file_id \notin DOMAIN files THEN Reply(HttpError(req, 404, "File not found"))
     ELSE LET existing_file == files[file_id] IN
       IF ~ProjectOwned(existing_file.project_id, user) THEN ProjectNotFound(req)
       ELSE LET update_data ==
                  SetFields([k \in DOMAIN file_update
                                \cap {"name", "content", "category", "type", "priority",
                                      "pinned", "tags"} |-> file_update[k]],
                            [last_edited |-> now])
            IN /\ files' = [files EXCEPT ![file_id] = SetFields(@, update_data)]
               /\ projects' = TouchProject(existing_file.project_id, now)
               /\ resp' = ToolOk(req, SetFields(existing_file, update_data), "FileResponse")
               /\ clock' = now
               /\ UNCHANGED <<tasks, nextId>>

RaceInit ==
  /\ call = NoCall
  /\ projects = SeedProjects
  /\ files = [SeedFiles EXCEPT !["f1"].content = <<"a">>]
  /\ tasks = SeedTasks
  /\ clock = 0
  /\ nextId = 0
  /\ resp = NoResp
  /\ edit = NoEdit
  /\ oracle = <<>>
  /\ fault = 0
  /\ twin = NoTwin
  /\ share_links = NoLinks
  /\ accepting = NoAccepting

\* the requests of the race: the owner rewrites f1 or inserts into it, the
\* oracle answers with text, and a locate reply is a bare object naming
\* line 0 or no line
RaceBound ==
  edit.pc # "idle"
  => /\ edit.request.current_user = "u1"
     /\ edit.request.project_id = "p1"
     /\ edit.request.file_id = "f1"
     /\ edit.request.tool_name \in {"rewrite_document", "insert_in_document"}
     /\ \A i \in 1..Len(edit.replies) : edit.replies[i].kind = "text"
     /\ (edit.request.tool_name = "insert_in_document" /\ Len(edit.replies) >= 1)
        => /\ edit.replies[1].text.fence = "none"
           /\ edit.replies[1].text.body.kind = "object"
           /\ edit.replies[1].text.body.fields
                \in {EmptyDict, Entry("insert_after_line", JInt(0))}

\* the scheduler turns to the other request
RaceSwitch ==
  /\ edit' = twin.edit
  /\ twin' = [twin EXCEPT !.edit = edit]
  /\ UNCHANGED <<call, projects, files, tasks, clock, nextId, resp, oracle, fault, share_links,
                 accepting>>

\* the caller of a finished edit commits its modified_content through the
\* modify_document tool
RaceCommit ==
  /\ edit.pc = "done"
  /\ edit.response.status = 200
  /\ ModifyDocument(<<edit.request.current_user, edit.request.project_id>>,
                    SetFields(Entry("file_id", edit.request.file_id),
                              Entry("new_content", edit.response.result.modified_content)))
  /\ edit' = [edit EXCEPT !.pc = "committed"]
  /\ UNCHANGED <<call, oracle, fault, twin, share_links, accepting>>

\* the caller of a finished edit commits its modified_content through
\* update_file
RaceUpdateFile ==
  /\ edit.pc = "done"
  /\ edit.response.status = 200
  /\ UpdateFile(edit.request.current_user, edit.request.file_id,
                Entry("content", edit.response.result.modified_content))
  /\ edit' = [edit EXCEPT !.pc = "committed"]
  /\ UNCHANGED <<call, oracle, fault, twin, share_links, accepting>>

RaceNext ==
  \/ (EditStart /\ UNCHANGED <<call, clock, resp, fault, twin, share_links, accepting>> /\ RaceBound')
  \/ (RewriteReturns /\ UNCHANGED <<call, clock, resp, fault, twin, share_links, accepting>> /\ RaceBound')
  \/ (LocateReturns /\ UNCHANGED <<call, clock, resp, fault, twin, share_links, accepting>> /\ RaceBound')
  \/ (GenerateReturns /\ UNCHANGED <<call, clock, resp, fault, twin, share_links, accepting>> /\ RaceBound')
  \/ RaceSwitch
  \/ RaceCommit
  \/ RaceUpdateFile

SpecRace == RaceInit /\ [][RaceNext]_vars

(***************************************************************************)
(* backend/server.py: share links and delete_project                       *)
(***************************************************************************)
\* secrets.token_urlsafe(16): the n-th token drawn
NewToken(n) == "k" \o ToString(n)

\* the permissions a share link is created with: allow_files names a file of
\* the project, files of two projects, an unknown file, a malformed id, or is
\* empty or absent
SharePermissions ==
  {SetFields(a, b) :
     a \in Opt("allow_files", {<<>>, <<"f1">>, <<"f1", "f2">>, <<"f9", "bad">>}),
     b \in Opt("allow_all_files", {TRUE, FALSE})}

\* share_project (server.py 419-439)
ShareProject(caller, permissions) ==
  LET req == Request("share_project", permissions, caller[2], caller[1])
      token == NewToken(nextId + 1)
      share_link == [project_id |-> caller[2], created_by |-> caller[1], token |-> token,
                     type |-> "view", permissions |-> permissions, status |-> "active",
                     created_at |-> clock + 1, views |-> 0]
  IN IF ~ProjectOwned(caller[2], caller[1])
     THEN Reply(HttpError(req, 404, "Project not found")) /\ UNCHANGED share_links
     ELSE /\ share_links' = InsertOne(share_links, token, share_link)
          /\ nextId' = nextId + 1
          /\ resp' = ToolOk(req, [token |-> token], "url")
          /\ clock' = clock + 1
          /\ UNCHANGED <<projects, files, tasks>>

\* slip: the query of list_shared_files leaves the project out
SharedFileMatches_anyproject(link, file_id) ==
  LET permissions == Get(link, "permissions", EmptyDict)
      allowed_files == Get(permissions, "allow_files", <<>>)
  IN IF Len(allowed_files) > 0
     THEN file_id \in {allowed_files[i] : i \in 1..Len(allowed_files)} \ MalformedIds
     ELSE Get(permissions, "allow_all_files", FALSE)

\* the file is found by the query list_shared_files builds for the link
\* (server.py 478-489)
SharedFileMatches(link, file_id) ==
  LET permissions == Get(link, "permissions", EmptyDict)
      allowed_files == Get(permissions, "allow_files", <<>>)
  IN /\ files[file_id].project_id = link.project_id
     /\ IF Len(allowed_files) > 0
        THEN file_id \in {allowed_files[i] : i \in 1..Len(allowed_files)} \ MalformedIds
        ELSE Get(permissions, "allow_all_files", FALSE)

\* cursor.sort("priority", -1): the ids in descending order of priority
RECURSIVE SortByPriority(_)
SortByPriority(ids) ==
  IF ids = {} THEN <<>>
  ELSE LET first == CHOOSE f \in ids : \A g \in ids : files[f].priority >= files[g].priority
       IN <<first>> \o SortByPriority(ids \ {first})

\* list_shared_files (server.py 471-506)
ListSharedFiles(token) ==
  LET req == Request("list_shared_files", Entry("token", token), None, None) IN
  IF ~(token \in DOMAIN share_links /\ share_links[token].status = "active"
       /\ share_links[token].type = "view")
  THEN Reply(HttpError(req, 404, "Invalid link"))
  ELSE LET link == share_links[token]
           found == SortByPriority({f \in DOMAIN files : SharedFileMatches(link, f)})
       IN Reply(ToolOk(req, [i \in 1..Len(found) |-> SetFields(Entry("id", found[i]), files[found[i]])],
                       "files"))

\* delete_project (server.py 364-368): the function ends after the check
DeleteProject(caller) ==
  LET req == Request("delete_project", EmptyDict, caller[2], caller[1]) IN
  IF ~ProjectOwned(caller[2], caller[1])
  THEN Reply(HttpError(req, 404, "Project not found"))
  ELSE /\ projects' = [p \in DOMAIN projects \ {caller[2]} |-> projects[p]]
       /\ resp' = ToolOk(req, None, None)
       /\ clock' = clock + 1
       /\ UNCHANGED <<files, tasks, nextId>>

\* a second file of project p1, and an invite among the share links
ShareInit ==
  /\ call = NoCall
  /\ projects = SeedProjects
  /\ files = [f \in {"f1", "f2", "f3"} |->
                IF f = "f3" THEN SeedFile("p1", "c.md", "doc", <<"a">>) ELSE SeedFiles[f]]
  /\ tasks = SeedTasks
  /\ clock = 0
  /\ nextId = 0
  /\ resp = NoResp
  /\ edit = NoEdit
  /\ oracle = <<>>
  /\ fault = 0
  /\ twin = NoTwin
  /\ share_links = Entry("i1", [project_id |-> "p1", created_by |-> "u1", token |-> "i1",
                                type |-> "invite", target_email |-> None,
                                status |-> "active", created_at |-> 0])
  /\ accepting = NoAccepting

ExecShareProject ==
  /\ clock < MaxOps
  /\ \E caller \in Callers : \E permissions \in ArgsFor(caller, SharePermissions) :
       ShareProject(caller, permissions)
  /\ UNCHANGED <<call, edit, oracle, fault, twin, accepting>>

ExecListSharedFiles ==
  /\ clock < MaxOps
  /\ \E token \in DOMAIN share_links \cup {"k9"} : ListSharedFiles(token)
  /\ UNCHANGED <<call, edit, oracle, fault, twin, share_links, accepting>>

ExecDeleteProject ==
  /\ clock < MaxOps
  /\ \E caller \in Callers : DeleteProject(caller)
  /\ UNCHANGED <<call, edit, oracle, fault, twin, share_links, accepting>>

ShareNext ==
  \/ ExecShareProject
  \/ ExecListSharedFiles
  \/ ExecDeleteProject

SpecShare == ShareInit /\ [][ShareNext]_vars

(***************************************************************************)
(* backend/server.py: invites and collaborators. create_invite,            *)
(* decline_invite, delete_pending_invite, list_projects and update_project *)
(* are taken as one step each; accept_invite is taken await by await, so   *)
(* that two accept requests interleave. The clock ticks when it is read.   *)
(***************************************************************************)
\* current_user["email"] of the three users
EmailOf(user) == CASE user = "u1" -> "e1" [] user = "u2" -> "e2" [] OTHER -> "e3"

\* the users who accept and decline invites
Invitees == {"u2", "u3"}

\* projects with the fields of the sharing endpoints; $addToSet and $pull
\* keep collaborators and pending_invites free of duplicates: they are sets
InviteProjects ==
  [p \in DOMAIN SeedProjects |->
     SetFields(SeedProjects[p], [name |-> "P", tags |-> <<>>, created_at |-> 0,
                                collaborators |-> {}, pending_invites |-> {}])]

\* the response to a sharing request; seq alternates so that each response
\* differs from the one before
InviteReply(op, user, args, status, result) ==
  resp' = [seq |-> 1 - resp.seq, request |-> Request(op, args, Get(args, "project_id", None), user),
           status |-> status, success |-> status = 200, result |-> result]

\* create_invite (server.py 541-608); email_sent is what send_invite_email returns
CreateInvite(caller, email, email_sent) ==
  LET args == SetFields(Entry("project_id", caller[2]), Entry("email", email))
      token == NewToken(nextId + 1)
      invite == [project_id |-> caller[2], created_by |-> caller[1], token |-> token,
                 type |-> "invite", target_email |-> email, status |-> "active",
                 created_at |-> clock + 1]
  IN IF ~ProjectOwned(caller[2], caller[1])
     THEN /\ InviteReply("create_invite", caller[1], args, 404, "Project not found")
          /\ UNCHANGED <<share_links, projects, nextId, clock>>
     ELSE /\ share_links' = InsertOne(share_links, token, invite)
          /\ nextId' = nextId + 1
          /\ clock' = clock + 1
          /\ projects' = IF Truthy(email)
                         THEN [projects EXCEPT ![caller[2]].pending_invites = @ \cup {email}]
                         ELSE projects
          /\ IF Truthy(email) /\ ~email_sent
             THEN InviteReply("create_invite", caller[1], args, 500,
                              "Invite created but failed to send email.")
             ELSE InviteReply("create_invite", caller[1], args, 200, [token |-> token])

\* delete_pending_invite (server.py 610-629)
DeletePendingInvite(caller, email) ==
  LET args == SetFields(Entry("project_id", caller[2]), Entry("email", email)) IN
  IF ~ProjectOwned(caller[2], caller[1])
  THEN /\ InviteReply("delete_pending_invite", caller[1], args, 404, "Project not found")
       /\ UNCHANGED <<share_links, projects>>
  ELSE /\ projects' = [projects EXCEPT ![caller[2]].pending_invites = @ \ {email}]
       /\ share_links' =
            [k \in DOMAIN share_links |->
               IF /\ share_links[k].project_id = caller[2]
                  /\ share_links[k].type = "invite"
                  /\ share_links[k].target_email = email
               THEN [share_links[k] EXCEPT !.status = "revoked"]
               ELSE share_links[k]]
       /\ InviteReply("delete_pending_invite", caller[1], args, 200, "Invite canceled")

\* find_one({"token": token, "status": "active", "type": "invite"})
ActiveInvite(token) ==
  /\ token \in DOMAIN share_links
  /\ share_links[token].status = "active"
  /\ share_links[token].type = "invite"

\* decline_invite (server.py 716-737)
DeclineInvite(user, token) ==
  IF ~ActiveInvite(token)
  THEN /\ InviteReply("decline_invite", user, Entry("token", token), 404,
                      "Invalid or expired invite")
       /\ UNCHANGED <<share_links, projects>>
  ELSE LET invite == share_links[token] IN
       /\ projects' = IF invite.project_id \in DOMAIN projects
                      THEN [projects EXCEPT ![invite.project_id].pending_invites =
                                              @ \ {invite.target_email}]
                      ELSE projects
       /\ share_links' = [share_links EXCEPT ![token].status = "declined"]
       /\ InviteReply("decline_invite", user, Entry("token", token), 200, "Invite declined")

\* accept_invite (server.py 682-688): the invite is looked up by a user with no
\* accept_invite request in flight; joined is the token the user was added to
\* the collaborators through, kept for the properties
AcceptFindInvite(user, token) ==
  /\ accepting[user].pc = "idle"
  /\ IF ~ActiveInvite(token)
     THEN /\ InviteReply("accept_invite", user, Entry("token", token), 404,
                         "Invalid or expired invite")
          /\ UNCHANGED accepting
     ELSE /\ accepting' = [accepting EXCEPT ![user].pc = "project", ![user].token = token]
          /\ UNCHANGED resp
  /\ UNCHANGED <<share_links, projects>>

\* accept_invite (server.py 690-699): the project is looked up
AcceptFindProject(user) ==
  LET token == accepting[user].token
      project_id == share_links[token].project_id
  IN /\ accepting[user].pc = "project"
     /\ IF project_id \notin DOMAIN projects
        THEN /\ InviteReply("accept_invite", user, Entry("token", token), 404,
                            "Project not found")
             /\ accepting' = [accepting EXCEPT ![user].pc = "idle", ![user].token = None]
        ELSE IF user \in projects[project_id].collaborators
        THEN /\ InviteReply("accept_invite", user, Entry("token", token), 200,
                            "Already a collaborator")
             /\ accepting' = [accepting EXCEPT ![user].pc = "idle", ![user].token = None]
        ELSE /\ accepting' = [accepting EXCEPT ![user].pc = "join"]
             /\ UNCHANGED resp
     /\ UNCHANGED <<share_links, projects>>

\* {"$addToSet": {"collaborators": id}, "$pull": {"pending_invites": email}}
JoinProject(project, user) ==
  [project EXCEPT !.collaborators = @ \cup {user},
                  !.pending_invites = @ \ {EmailOf(user)}]

\* accept_invite (server.py 701-708): the project is updated
AcceptJoin(user) ==
  LET token == accepting[user].token
      project_id == share_links[token].project_id
  IN /\ accepting[user].pc = "join"
     /\ projects' = IF project_id \in DOMAIN projects
                    THEN [projects EXCEPT ![project_id] = JoinProject(@, user)]
                    ELSE projects
     /\ accepting' = [accepting EXCEPT ![user].pc = "mark", ![user].joined = token]
     /\ UNCHANGED <<share_links, resp>>

\* accept_invite (server.py 710-714): the invite is marked and the request answered
AcceptMark(user) ==
  LET token == accepting[user].token IN
  /\ accepting[user].pc = "mark"
  /\ share_links' = [share_links EXCEPT ![token].status = "accepted"]
  /\ accepting' = [accepting EXCEPT ![user].pc = "idle", ![user].token = None]
  /\ InviteReply("accept_invite", user, Entry("token", token), 200,
                 "Joined project successfully")
  /\ UNCHANGED projects

\* slip: only the owner's projects are found
CanAccess_owner(project, user) == project.user_id = user

\* {"$or": [{"user_id": id}, {"collaborators": id}]}
CanAccess(project, user) == project.user_id = user \/ user \in project.collaborators

\* cursor.sort("last_edited", -1): the ids in descending order of last_edited
RECURSIVE SortByLastEdited(_)
SortByLastEdited(ids) ==
  IF ids = {} THEN <<>>
  ELSE LET first == CHOOSE f \in ids :
                      \A g \in ids : projects[f].last_edited >= projects[g].last_edited
       IN <<first>> \o SortByLastEdited(ids \ {first})

\* ProjectResponse(...) of a stored project
ProjectResponse(project_id, project) ==
  [id |-> project_id, name |-> project.name, status |-> Get(project, "status", "planning"),
   tags |-> project.tags, created_at |-> project.created_at,
   last_edited |-> project.last_edited]

\* list_projects (server.py 285-306)
ListProjects(user) ==
  LET found == SortByLastEdited({p \in DOMAIN projects : CanAccess(projects[p], user)}) IN
  /\ InviteReply("list_projects", user, EmptyDict, 200,
                 [i \in 1..Len(found) |-> ProjectResponse(found[i], projects[found[i]])])
  /\ UNCHANGED <<share_links, projects, accepting>>

\* the request body of update_project: one key that is stored and one that is not
ProjectUpdates == {SetFields(Entry("tags", <<"t">>), Entry("user_id", "u3"))}

\* update_project (server.py 369-410)
UpdateProject(caller, updates) ==
  LET args == SetFields(Entry("project_id", caller[2]), Entry("updates", updates)) IN
  IF ~(caller[2] \in DOMAIN projects /\ CanAccess(projects[caller[2]], caller[1]))
  THEN /\ InviteReply("update_project", caller[1], args, 404, "Project not found")
       /\ UNCHANGED <<projects, clock>>
  ELSE LET allowed == {"name", "status", "tags", "links", "icon", "custom_categories",
                       "collaborators"}
           filtered_updates ==
             SetFields([k \in DOMAIN updates \cap allowed |-> updates[k]],
                       Entry("last_edited", clock + 1))
           updated_project == SetFields(projects[caller[2]], filtered_updates)
       IN /\ projects' = [projects EXCEPT ![caller[2]] = updated_project]
          /\ clock' = clock + 1
          /\ InviteReply("update_project", caller[1], args, 200,
                         ProjectResponse(caller[2], updated_project))

\* the store of the sharing endpoints before any invite
InviteInit ==
  /\ call = NoCall
  /\ projects = InviteProjects
  /\ files = [f \in {} |-> None]
  /\ tasks = [t \in {} |-> None]
  /\ clock = 0
  /\ nextId = 0
  /\ resp = NoResp
  /\ edit = NoEdit
  /\ oracle = <<>>
  /\ fault = 0
  /\ twin = NoTwin
  /\ share_links = NoLinks
  /\ accepting = [u \in Invitees |-> [pc |-> "idle", token |-> None, joined |-> None]]

\* the callers of the sharing endpoints: the owner of p1 and an invitee
InviteCallers == {<<"u1", "p1">>, <<"u2", "p1">>}

\* the emails an invite is created for: none (a link invite) or an invitee's
InviteEmails == {None, "e2"}

\* the tokens a request presents: the stored ones and one that is not
TokensNow == DOMAIN share_links \cup {"k9"}

ExecCreateInvite ==
  /\ Cardinality(DOMAIN share_links) < MaxInvites
  /\ \E caller \in InviteCallers : \E email \in InviteEmails : \E email_sent \in BOOLEAN :
       CreateInvite(caller, email, email_sent)
  /\ UNCHANGED <<call, files, tasks, edit, oracle, fault, twin, accepting>>

ExecDeletePendingInvite ==
  /\ \E caller \in InviteCallers : \E email \in InviteEmails \ {None} :
       DeletePendingInvite(caller, email)
  /\ UNCHANGED <<call, files, tasks, clock, nextId, edit, oracle, fault, twin, accepting>>

ExecDeclineInvite ==
  /\ \E user \in Invitees : \E token \in TokensNow : DeclineInvite(user, token)
  /\ UNCHANGED <<call, files, tasks, clock, nextId, edit, oracle, fault, twin, accepting>>

ExecAcceptInvite ==
  /\ \E user \in Invitees :
       \/ \E token \in TokensNow : AcceptFindInvite(user, token)
       \/ AcceptFindProject(user)
       \/ AcceptJoin(user)
       \/ AcceptMark(user)
  /\ UNCHANGED <<call, files, tasks, clock, nextId, edit, oracle, fault, twin>>

ExecListProjects ==
  /\ \E user \in {"u1"} \cup Invitees : ListProjects(user)
  /\ UNCHANGED <<call, files, tasks, clock, nextId, edit, oracle, fault, twin>>

ExecUpdateProject ==
  /\ clock < MaxOps
  /\ \E caller \in InviteCallers : \E updates \in ProjectUpdates : UpdateProject(caller, updates)
  /\ UNCHANGED <<call, files, tasks, nextId, edit, oracle, fault, twin, share_links, accepting>>

InviteNext ==
  \/ ExecCreateInvite
  \/ ExecDeletePendingInvite
  \/ ExecDeclineInvite
  \/ ExecAcceptInvite
  \/ ExecListProjects
  \/ ExecUpdateProject

SpecInvite == InviteInit /\ [][InviteNext]_vars

(***************************************************************************)
(* backend/auth.py: access and refresh tokens. An encoded token is its     *)
(* payload and the key it was signed with; the clock is datetime.utcnow(), *)
(* in units of the access token's lifetime.                                *)
(***************************************************************************)
\* jwt.decode(token, SECRET_KEY, algorithms=[ALGORITHM]) raises JWTError for a
\* wrong signature and for an expired token
JWTError(token, now) == token.key # "SECRET_KEY" \/ token.payload["exp"] < now

\* create_access_token (auth.py 23-31): ACCESS_TOKEN_EXPIRE_MINUTES is one unit
create_access_token(data, now) ==
  [payload |-> SetFields(data, [exp |-> now + 1, type |-> "access"]), key |-> "SECRET_KEY"]

\* create_refresh_token (auth.py 33-42): REFRESH_TOKEN_EXPIRE_DAYS is two units
create_refresh_token(data, now) ==
  [payload |-> SetFields(data, [exp |-> now + 2, type |-> "refresh"]), key |-> "SECRET_KEY"]

\* verify_refresh_token (auth.py 44-57): ok is whether user data is returned
verify_refresh_token(token, now) ==
  LET payload == token.payload IN
  IF JWTError(token, now) THEN [ok |-> FALSE, email |-> None, id |-> None]
  ELSE IF Get(payload, "type", None) # "refresh" THEN [ok |-> FALSE, email |-> None, id |-> None]
  ELSE IF Get(payload, "sub", None) = None \/ Get(payload, "id", None) = None
  THEN [ok |-> FALSE, email |-> None, id |-> None]
  ELSE [ok |-> TRUE, email |-> payload["sub"], id |-> payload["id"]]

\* get_current_user (auth.py 59-78): ok is whether the user is returned
\* rather than credentials_exception raised
get_current_user(token, now) ==
  LET payload == token.payload IN
  IF JWTError(token, now) THEN [ok |-> FALSE, email |-> None, id |-> None]
  ELSE IF Get(payload, "sub", None) = None \/ Get(payload, "id", None) = None
  THEN [ok |-> FALSE, email |-> None, id |-> None]
  ELSE [ok |-> TRUE, email |-> payload["sub"], id |-> payload["id"]]

\* the tokens a client can present at a time: the access and refresh tokens
\* issued up to then for two users and for data without an id, and the same
\* tokens signed with another key
AuthTokens(now) ==
  LET datas == {[sub |-> "e1", id |-> "u1"], [sub |-> "e2", id |-> "u2"], [sub |-> "e1"]}
      issued == UNION {{create_access_token(d, t), create_refresh_token(d, t)} :
                         d \in datas, t \in 0..now}
  IN issued \cup {[tk EXCEPT !.key = "other"] : tk \in issued}

AuthInit ==
  /\ call = NoCall
  /\ projects = SeedProjects
  /\ files = [f \in {} |-> None]
  /\ tasks = [t \in {} |-> None]
  /\ clock = 0
  /\ nextId = 0
  /\ resp = NoResp
  /\ edit = NoEdit
  /\ oracle = <<>>
  /\ fault = 0
  /\ twin = NoTwin
  /\ share_links = NoLinks
  /\ accepting = NoAccepting

\* a request with a bearer token
ExecGetCurrentUser ==
  /\ clock <= MaxOps
  /\ \E token \in AuthTokens(clock) :
       call' = [fn |-> "get_current_user", token |-> token,
                ret |-> get_current_user(token, clock)]
  /\ clock' = clock + 1
  /\ UNCHANGED <<projects, files, tasks, nextId, resp, edit, oracle, fault, twin,
                 share_links, accepting>>

\* a request to /api/auth/refresh with a token in the body
ExecVerifyRefreshToken ==
  /\ clock <= MaxOps
  /\ \E token \in AuthTokens(clock) :
       call' = [fn |-> "verify_refresh_token", token |-> token,
                ret |-> verify_refresh_token(token, clock)]
  /\ clock' = clock + 1
  /\ UNCHANGED <<projects, files, tasks, nextId, resp, edit, oracle, fault, twin,
                 share_links, accepting>>

AuthNext == ExecGetCurrentUser \/ ExecVerifyRefreshToken

SpecAuth == AuthInit /\ [][AuthNext]_vars

(***************************************************************************)
(* Applicator runs: one call of a helper on arguments drawn from the       *)
(* bounded sets                                                            *)
(***************************************************************************)
LineArgs == (0 - 2)..(MaxLen + 3)

PatchInit ==
  /\ projects = SeedProjects
  /\ files = SeedFiles
  /\ tasks = SeedTasks
  /\ clock = 0
  /\ nextId = 0
  /\ resp = NoResp
  /\ edit = NoEdit
  /\ oracle = <<>>
  /\ fault = 0
  /\ twin = NoTwin
  /\ share_links = NoLinks
  /\ accepting = NoAccepting
  /\ \E fn \in {"apply_insert", "apply_replace"} :
       \E o \in TextsUpTo(MaxLen), n \in TextsUpTo(MaxNewLen) :
         \E l1 \in LineArgs :
           \E l2 \in (IF fn = "apply_replace" THEN LineArgs ELSE {0}) :
             call = [fn |-> fn, original_content |-> o, line1 |-> l1, line2 |-> l2,
                     new_content |-> n, returned |-> FALSE, ret |-> <<>>]

CallApplyInsert ==
  /\ call.fn = "apply_insert"
  /\ ~call.returned
  /\ call' = [call EXCEPT !.returned = TRUE,
                !.ret = apply_insert(call.original_content, call.line1, call.new_content)]

CallApplyReplace ==
  /\ call.fn = "apply_replace"
  /\ ~call.returned
  /\ call' = [call EXCEPT !.returned = TRUE,
                !.ret = apply_replace(call.original_content, call.line1, call.line2,
                                      call.new_content)]


PatchNext ==
  \/ (CallApplyInsert /\ UNCHANGED <<projects, files, tasks, clock, nextId, resp, edit, oracle, fault, twin, share_links, accepting>>)
  \/ (CallApplyReplace /\ UNCHANGED <<projects, files, tasks, clock, nextId, resp, edit, oracle, fault, twin, share_links, accepting>>)

SpecPatch == PatchInit /\ [][PatchNext]_vars

(***************************************************************************)
(* Properties of the applicator                                            *)
(***************************************************************************)
CallLines == SplitLines(call.original_content)

\* C1: for every original text and every range 1 <= startLine <= endLine <=
\* lineCount, the lines of apply_replace's result are the original lines
\* before startLine, then the replacement, then the original lines after
\* endLine, all unchanged and in order.
C1_ReplaceKeepsLinesOutsideRange ==
  (/\ call.fn = "apply_replace"
   /\ call.returned
   /\ 1 <= call.line1
   /\ call.line1 <= call.line2
   /\ call.line2 <= Len(CallLines))
  => SplitLines(call.ret)
       = SubSeq(CallLines, 1, call.line1 - 1)
         \o SplitLines(call.new_content)
         \o SubSeq(CallLines, call.line2 + 1, Len(CallLines))

\* C2: for every original text and every 0 < afterLine < lineCount, the
\* lines of apply_insert's result are the first afterLine original lines,
\* then the insertion as one block, then the remaining original lines.
C2_InsertKeepsEveryLine ==
  (/\ call.fn = "apply_insert"
   /\ call.returned
   /\ 0 < call.line1
   /\ call.line1 < Len(CallLines))
  => SplitLines(call.ret)
       = SubSeq(CallLines, 1, call.line1)
         \o SplitLines(call.new_content)
         \o SubSeq(CallLines, call.line1 + 1, Len(CallLines))

C2_Witness ==
  /\ call.fn = "apply_insert"
  /\ call.returned
  /\ call.original_content = <<"a", NL, NL, "b">>
  /\ call.line1 = 2
  /\ call.new_content = <<"b">>
  /\ call.ret = <<"a", NL, NL, "b", NL, "b">>

\* C15: for every original text and every insertion, apply_insert with
\* afterLine <= 0 returns insertion + newline + original; on the empty
\* document with afterLine 0 that is the insertion followed by a newline.
C15_InsertAtStart ==
  (/\ call.fn = "apply_insert"
   /\ call.returned
   /\ call.line1 <= 0)
  => /\ call.ret = call.new_content \o <<NL>> \o call.original_content
     /\ (call.original_content = <<>>) => (call.ret = Append(call.new_content, NL))

C15_Witness ==
  /\ call.fn = "apply_insert"
  /\ call.returned
  /\ call.original_content = <<>>
  /\ call.line1 = 0
  /\ call.new_content = <<"a">>
  /\ call.ret = <<"a", NL>>

\* C16: for every original text and every insertion, apply_insert with
\* afterLine >= the number of lines of the original returns
\* original + newline + insertion.
C16_InsertAtEnd ==
  (/\ call.fn = "apply_insert"
   /\ call.returned
   /\ call.line1 >= Len(CallLines))
  => call.ret = call.original_content \o <<NL>> \o call.new_content

C16_Witness ==
  /\ call.fn = "apply_insert"
  /\ call.returned
  /\ call.original_content = <<"a", NL, "b">>
  /\ call.line1 = 2
  /\ call.new_content = <<"b">>
  /\ call.ret = <<"a", NL, "b", NL, "b">>

\* C17: for every original text and every replacement X,
\* apply_replace(original, 1, lineCount, X) returns exactly X: no leading or
\* trailing blank line is added and nothing of the original is left.
C17_ReplaceAllIsReplacement ==
  (/\ call.fn = "apply_replace"
   /\ call.returned
   /\ call.line1 = 1
   /\ call.line2 = Len(CallLines))
  => call.ret = call.new_content

C17_Witness ==
  /\ call.fn = "apply_replace"
  /\ call.returned
  /\ call.original_content = <<NL, "a", NL>>
  /\ call.line1 = 1
  /\ call.line2 = 3
  /\ call.new_content = <<"b">>
  /\ call.ret = <<"b">>

\* the clamped indices of an apply_replace call
C18_Start == IF call.line1 - 1 > 0 THEN call.line1 - 1 ELSE 0
C18_End == IF call.line2 < Len(CallLines) THEN call.line2 ELSE Len(CallLines)
C18_At == IF C18_Start < Len(CallLines) THEN C18_Start ELSE Len(CallLines)

\* C18: when the clamped indices of apply_replace satisfy start >= end, the
\* result is the original with the replacement inserted at index start and
\* nothing removed: its lines are the original lines before start, the
\* replacement, then the original lines from start on, each exactly once.
C18_EmptyRangeInserts ==
  (/\ call.fn = "apply_replace"
   /\ call.returned
   /\ C18_Start >= C18_End)
  => SplitLines(call.ret)
       = SubSeq(CallLines, 1, C18_At)
         \o SplitLines(call.new_content)
         \o SubSeq(CallLines, C18_At + 1, Len(CallLines))

\* C25: for every integer startLine and endLine (zero, negative and beyond
\* the line count included), the two indices apply_replace slices the line
\* list with both lie in [0, lineCount].
C25_IndicesClamped ==
  (call.fn = "apply_replace" /\ call.returned)
  => /\ 0 <= start_idx(call.line1)
     /\ start_idx(call.line1) <= Len(CallLines)
     /\ 0 <= end_idx(CallLines, call.line2)
     /\ end_idx(CallLines, call.line2) <= Len(CallLines)

(***************************************************************************)
(* Properties of edit_document                                             *)
(***************************************************************************)
EditBase == BaseToolName(edit.request.tool_name)

EditIsPatch == EditBase \in {"insert_in_document", "replace_in_document"}

\* C3: an insert or replace request whose oracle calls all return text ends
\* with a successful PatchResult and integer line numbers, whatever the text
\* of the locate reply is.
C3_LocateReplyNeverAborts ==
  (/\ edit.pc = "done"
   /\ Len(edit.replies) >= 1
   /\ EditIsPatch
   /\ \A i \in 1..Len(edit.replies) : edit.replies[i].kind = "text")
  => /\ edit.response.status = 200
     /\ \A i \in 1..Len(edit.lines) : edit.lines[i].t = "int"

\* the generate prompt follows the locate prompt and carries the line numbers
\* parsed from the locate reply
C4_SecondCallAfterParse ==
  Len(oracle) = 2
  => /\ oracle[1].step \in {"locate_insert", "locate_replace"}
     /\ oracle[2].step \in {"generate_insert", "generate_replace"}
     /\ Len(edit.replies) >= 1
     /\ edit.replies[1].kind # "raise"
     /\ Len(edit.lines) >= 1
     /\ oracle[2].lines = edit.lines

\* the generate prompt is sent in the step in which the locate reply arrives
C4_SecondCallStep ==
  Len(oracle') = 2 /\ Len(oracle) # 2
  => /\ Len(oracle) = 1
     /\ edit.pc = "locate"
     /\ Len(edit.replies) = 0
     /\ Len(edit'.replies) = 1

EditPassedValidation ==
  edit.pc = "done" /\ edit.response.status \notin {400, 403, 404}

\* C4 as stated: a rewrite request issues exactly one oracle call, an insert
\* or replace request exactly two, the second only after the first has
\* returned and been parsed; no request issues more than two.
C4_ExactlyTwoCalls ==
  /\ Len(oracle) <= 2
  /\ C4_SecondCallAfterParse
  /\ EditPassedValidation
     => /\ EditBase = "rewrite_document" => Len(oracle) = 1
        /\ EditIsPatch => Len(oracle) = 2

\* C4 as amended: a rewrite request that passes validation issues exactly
\* one oracle call; an insert or replace request that completes successfully
\* has issued exactly two and one that fails has issued one or two; the
\* generate call is issued only after the locate call has returned and its
\* reply has been parsed into line numbers; no request issues more than two.
C4_CallCounts ==
  /\ [](/\ Len(oracle) <= 2
        /\ C4_SecondCallAfterParse
        /\ EditPassedValidation
           => /\ EditBase = "rewrite_document" => Len(oracle) = 1
              /\ EditIsPatch => Len(oracle) \in {1, 2}
              /\ EditIsPatch /\ edit.response.status = 200 => Len(oracle) = 2)
  /\ [][C4_SecondCallStep]_vars

C4_Witness ==
  /\ edit.pc = "done"
  /\ edit.request.tool_name = "replace_in_mockup"
  /\ edit.response.status = 200
  /\ Len(oracle) = 2
  /\ edit.lines = <<JInt(2), JInt(2)>>
  /\ oracle[2].content_being_replaced = <<"b">>

\* C5: when an oracle call fails the request ends with an error and no
\* PatchResult, the failed call is the last one issued (no retry, and no
\* generate call after a failed locate call).
C5_OracleFailureAborts ==
  \A i \in 1..Len(edit.replies) :
    edit.replies[i].kind = "raise"
    => /\ edit.pc = "done"
       /\ edit.response.status = 500
       /\ ~edit.response.success
       /\ "result" \notin DOMAIN edit.response
       /\ i = Len(edit.replies)
       /\ Len(oracle) = i

C5_Witness ==
  /\ edit.pc = "done"
  /\ edit.request.tool_name = "insert_in_document"
  /\ Len(edit.replies) = 1
  /\ edit.replies[1].kind = "raise"
  /\ Len(oracle) = 1
  /\ edit.response.status = 500

\* C6: no step of an edit request, successful or failed, changes a project,
\* file or task record: the stored content is not replaced by
\* modified_content.
C6_EditLeavesStoreUnchanged ==
  [][(edit' # edit \/ oracle' # oracle)
     => (projects' = projects /\ files' = files /\ tasks' = tasks)]_vars

C6_Witness ==
  /\ edit.pc = "done"
  /\ edit.response.status = 200
  /\ edit.response.result.modified_content # edit.response.result.original_content
  /\ files[edit.request.file_id].content = edit.response.result.original_content

C7_KnownEditTools ==
  {"rewrite_document", "rewrite_mockup", "insert_in_document", "insert_in_mockup",
   "replace_in_document", "replace_in_mockup"}

C7_Rejected(status, detail) ==
  /\ edit.pc = "done"
  /\ edit.response.status = status
  /\ edit.response.detail = detail
  /\ Len(oracle) = 0

\* C7: a request whose project is not found, whose file is not found, whose
\* file belongs to another project or whose tool name is no edit operation
\* ends with the corresponding error and no oracle call.
C7_ValidationBeforeOracle ==
  edit.pc # "idle"
  => LET r == edit.request IN
     IF ~(r.project_id \in DOMAIN projects
          /\ projects[r.project_id].user_id = r.current_user)
     THEN C7_Rejected(404, "Project not found")
     ELSE IF r.file_id \notin DOMAIN files
     THEN C7_Rejected(404, "File not found")
     ELSE IF files[r.file_id].project_id # r.project_id
     THEN C7_Rejected(403, "File does not belong to this project")
     ELSE r.tool_name \notin C7_KnownEditTools
          => C7_Rejected(400, <<"Unknown edit tool", r.tool_name>>)

C7_Witness ==
  /\ edit.pc = "done"
  /\ edit.request.tool_name = "delete_mockup"
  /\ edit.request.file_id = "f1"
  /\ edit.request.project_id = "p1"
  /\ edit.response.status = 400
  /\ Len(oracle) = 0

\* the locate reply has arrived
C19_Located == edit.pc \in {"generate", "done"} /\ Len(edit.replies) >= 1

\* the locate reply is text that json.loads or the fence clean-up rejects
C19_Unparsed ==
  /\ edit.replies[1].kind = "text"
  /\ \/ edit.replies[1].text.fence = "inline"
     \/ edit.replies[1].text.body.kind = "text"

\* the locate reply is a JSON object with no field k
C19_Lacks(k) ==
  /\ edit.replies[1].kind = "text"
  /\ edit.replies[1].text.fence # "inline"
  /\ edit.replies[1].text.body.kind = "object"
  /\ k \notin DOMAIN edit.replies[1].text.body.fields

C19_LineCount == Len(SplitLines(edit.original_content))

\* the generate call returned text
C19_Generated ==
  /\ edit.pc = "done"
  /\ Len(edit.replies) = 2
  /\ edit.replies[2].kind = "text"

\* C19: in an insert request, when the locate reply is not parseable JSON or
\* is an object without insert_after_line, the insertion line used is the
\* document's line count, and once the content is generated
\* modified_content = original + newline + generated content.
C19_InsertFallbackAppends ==
  (/\ C19_Located
   /\ EditBase = "insert_in_document"
   /\ (C19_Unparsed \/ C19_Lacks("insert_after_line")))
  => /\ edit.lines = <<JInt(C19_LineCount)>>
     /\ C19_Generated
        => /\ edit.response.status = 200
           /\ edit.response.result.modified_content
                = edit.original_content \o <<NL>> \o Strip(edit.replies[2].text)

C19_Witness ==
  /\ C19_Generated
  /\ EditBase = "insert_in_document"
  /\ C19_Unparsed
  /\ edit.original_content = <<"a", NL, "b", NL, "a">>
  /\ edit.lines = <<JInt(3)>>
  /\ edit.response.status = 200
  /\ edit.response.result.modified_content = <<"a", NL, "b", NL, "a", NL, "b", NL, "a">>

C20_WholeDocument ==
  /\ edit.lines = <<JInt(1), JInt(C19_LineCount)>>
  /\ C19_Generated
     => /\ edit.response.status = 200
        /\ edit.response.result.modified_content = Strip(edit.replies[2].text)

\* C20 as stated: in a replace request, when the locate reply fails to parse
\* or lacks either start_line or end_line, the range used is exactly
\* (1, documentLineCount), so the whole document is replaced and
\* modified_content equals the generated replacement.
C20_FallbackOnEitherMissing ==
  (/\ C19_Located
   /\ EditBase = "replace_in_document"
   /\ (C19_Unparsed \/ C19_Lacks("start_line") \/ C19_Lacks("end_line")))
  => C20_WholeDocument

\* C20, amended: in a replace request, when the locate reply fails to parse
\* or is an object with neither start_line nor end_line, the range used is
\* exactly (1, documentLineCount) and modified_content equals the generated
\* replacement; when the object lacks only one of the two fields, only that
\* one takes its default (start_line 1, end_line documentLineCount) and the
\* other is used as the reply gives it.
C20_FallbackPerField ==
  (C19_Located /\ EditBase = "replace_in_document")
  => /\ (C19_Unparsed \/ (C19_Lacks("start_line") /\ C19_Lacks("end_line")))
        => C20_WholeDocument
     /\ (C19_Lacks("start_line") /\ ~C19_Lacks("end_line"))
        => edit.lines = <<JInt(1), edit.replies[1].text.body.fields.end_line>>
     /\ (C19_Lacks("end_line") /\ ~C19_Lacks("start_line"))
        => edit.lines = <<edit.replies[1].text.body.fields.start_line, JInt(C19_LineCount)>>

C20_Witness ==
  /\ C19_Generated
  /\ EditBase = "replace_in_document"
  /\ C19_Lacks("start_line")
  /\ C19_Lacks("end_line")
  /\ edit.replies[1].text.fence = "block"
  /\ edit.original_content = <<"a", NL, NL, "b", NL>>
  /\ edit.lines = <<JInt(1), JInt(4)>>
  /\ edit.response.status = 200
  /\ edit.response.result.modified_content = <<"b", NL, "a">>

\* an oracle call without the wording that depends on the artifact kind
C21_Call(prompt) == [k \in DOMAIN prompt \ {"is_mockup"} |-> prompt[k]]

C21_Calls(prompts) == [i \in 1..Len(prompts) |-> C21_Call(prompts[i])]

\* C21: of two edit requests that differ only in artifact kind (by the
\* tool-name suffix or by the stored file type), run on the same content
\* with the same oracle replies, the second issues the oracle calls of the
\* first, in the same order, never waits for a reply the first did not get,
\* and ends with the same status and the same modified_content.
C21_KindSymmetry ==
  (twin.edit.pc = "done" /\ edit.pc # "idle")
  => /\ edit.original_content = twin.edit.original_content
     /\ Len(oracle) <= Len(twin.oracle)
     /\ C21_Calls(oracle) = SubSeq(C21_Calls(twin.oracle), 1, Len(oracle))
     /\ edit.pc # "done" => Len(edit.replies) < Len(twin.edit.replies)
     /\ edit.pc = "done"
        => /\ Len(oracle) = Len(twin.oracle)
           /\ edit.replies = twin.edit.replies
           /\ edit.response.status = twin.edit.response.status
           /\ edit.response.status = 200
              => edit.response.result.modified_content
                   = twin.edit.response.result.modified_content

C21_Witness ==
  /\ twin.edit.pc = "done"
  /\ edit.pc = "done"
  /\ twin.edit.request.tool_name = "insert_in_document"
  /\ twin.edit.request.file_id = "f1"
  /\ ~twin.edit.is_mockup
  /\ edit.request.tool_name = "insert_in_document"
  /\ edit.request.file_id = "f2"
  /\ edit.is_mockup
  /\ Len(oracle) = 2
  /\ edit.response.status = 200
  /\ edit.response.result.modified_content = <<"a", NL, "b", NL, "a", NL, "b">>

\* the detail of a response made from an exception the handler did not
\* raise itself: str(e)
C22_ExceptionText == "str(e)"

\* C22: every error response of edit_document carries an error kind (the
\* status) and a message (the detail), and the text of an internal
\* exception (oracle failure, type error) is never that message. The
\* details of the 400, 403 and 404 responses are literals of the handler;
\* only a 500 can carry an exception's text.
C22_NoExceptionText ==
  (edit.pc = "done" /\ edit.response.status >= 400)
  => /\ "detail" \in DOMAIN edit.response
     /\ edit.response.status = 500 => edit.response.detail # C22_ExceptionText

C26_Step ==
  (edit.pc = "done" /\ edit'.pc = "committed" /\ resp'.seq # resp.seq)
  => /\ resp'.status = 200
     /\ resp'.success
     /\ files'[edit.request.file_id].content = edit.response.result.modified_content

\* C26: no version check or lock rejects a commit: whatever the stored
\* content has become since the edit request read it, the commit of a
\* PatchResult's modified_content (through modify_document or update_file)
\* succeeds and the stored content becomes that modified_content alone. The
\* witness is the lost update: two requests read the same content, both
\* commit, and the stored content is the second commit's, computed from the
\* content the first commit replaced.
C26_CommitNeverRejected == [][C26_Step]_vars

C26_Witness ==
  /\ edit.pc = "committed"
  /\ twin.edit.pc = "committed"
  /\ edit.original_content = <<"a">>
  /\ twin.edit.original_content = <<"a">>
  /\ twin.edit.response.result.modified_content = <<"b", NL, "a">>
  /\ edit.response.result.modified_content = <<"a", NL, "b">>
  /\ files["f1"].content = <<"a", NL, "b">>
  /\ resp.request.tool_name = "update_file"

(***************************************************************************)
(* Properties of execute_ai_tool                                           *)
(***************************************************************************)
C8_Level(task_item, key) == IF key \in DOMAIN task_item THEN task_item[key] ELSE "absent"

C8_Table(priority, importance) ==
  CASE priority = "high" /\ importance = "high" -> "q1"
    [] priority # "high" /\ importance = "high" -> "q2"
    [] priority = "high" /\ importance # "high" -> "q3"
    [] OTHER -> "q4"

C8_Stored(level) == IF level = "absent" THEN "medium" ELSE level

\* C8: the task create_tasks stores for an item has the quadrant of the
\* decision table (q1 both high, q2 importance high only, q3 priority high
\* only, q4 otherwise), an absent priority or importance being stored as
\* medium and counting as not high.
C8_QuadrantTable ==
  (resp.status = 200 /\ resp.request.tool_name = "create_tasks")
  => LET items == resp.request.arguments.tasks IN
     \A n \in 1..Len(items) :
       LET stored == tasks[resp.result.tasks[n].id]
           priority == C8_Level(items[n], "priority")
           importance == C8_Level(items[n], "importance")
       IN /\ stored.quadrant = C8_Table(priority, importance)
          /\ stored.priority = C8_Stored(priority)
          /\ stored.importance = C8_Stored(importance)

C8_Witness ==
  /\ resp.status = 200
  /\ resp.request.tool_name = "create_tasks"
  /\ \E n \in 1..Len(resp.request.arguments.tasks) :
       LET item == resp.request.arguments.tasks[n]
           stored == tasks[resp.result.tasks[n].id]
       IN /\ "priority" \notin DOMAIN item
          /\ "importance" \in DOMAIN item
          /\ item.importance = "low"
          /\ stored.quadrant = "q4"
          /\ stored.priority = "medium"

C9_Target(r) ==
  IF r.tool_name = "modify_task" THEN Get(r.arguments, "task_id", None)
  ELSE Get(r.arguments, "file_id", None)

C9_Step(coll, collNext, tool_name, mismatch, notFound) ==
  LET r == resp'.request
      id == C9_Target(r)
  IN (/\ resp'.seq # resp.seq
      /\ r.tool_name = tool_name
      /\ r.project_id \in DOMAIN projects
      /\ projects[r.project_id].user_id = r.current_user)
     => /\ (id \in DOMAIN coll /\ coll[id].project_id # r.project_id)
           => /\ resp'.status = 403
              /\ resp'.detail = mismatch
              /\ collNext = coll
        /\ (id \notin DOMAIN coll /\ id \notin {None, "", "bad"})
           => /\ resp'.status = 404
              /\ resp'.detail = notFound

\* C9: modify_task or modify_document, asked by the owner of the request's
\* project for an existing task or file of another project, fails with the
\* project-mismatch error (403), not with the not-found error (404) an
\* unknown id gets, and leaves the task or file unchanged.
C9_ProjectMismatch ==
  [][/\ C9_Step(tasks, tasks', "modify_task",
                "Task does not belong to this project", "Task not found")
     /\ C9_Step(files, files', "modify_document",
                "File does not belong to this project", "File not found")]_vars

C9_Witness ==
  /\ resp.status = 403
  /\ resp.request.tool_name = "modify_task"
  /\ resp.request.project_id = "p1"
  /\ resp.request.arguments.task_id = "t2"
  /\ "updates" \in DOMAIN resp.request.arguments
  /\ tasks["t2"] = SeedTasks["t2"]

C10_AllowList ==
  {"title", "description", "status", "priority", "importance", "difficulty", "quadrant"}

C10_Step ==
  (resp'.seq # resp.seq /\ resp'.request.tool_name = "modify_task")
  => LET r == resp'.request
         id == Get(r.arguments, "task_id", None)
         updates == Get(r.arguments, "updates", EmptyDict)
     IN /\ resp'.status = 200
           => /\ DOMAIN tasks' = DOMAIN tasks
              /\ \A t \in DOMAIN tasks \ {id} : tasks'[t] = tasks[t]
              /\ DOMAIN tasks'[id] = DOMAIN tasks[id]
              /\ \A k \in DOMAIN tasks[id] \ C10_AllowList : tasks'[id][k] = tasks[id][k]
        /\ (/\ r.project_id \in DOMAIN projects
            /\ projects[r.project_id].user_id = r.current_user
            /\ id \in DOMAIN tasks
            /\ tasks[id].project_id = r.project_id
            /\ DOMAIN updates \cap C10_AllowList = {})
           => /\ resp'.status = 200
              /\ tasks' = tasks

\* C10: a successful modify_task leaves every field outside the allow-list
\* (such as project_id and created_at) and every other task as they were,
\* and a call whose updates hold only fields outside the allow-list succeeds
\* and changes nothing.
C10_ModifyTaskFrame == [][C10_Step]_vars

C10_Witness ==
  /\ resp.status = 200
  /\ resp.request.tool_name = "modify_task"
  /\ resp.request.arguments.task_id = "t1"
  /\ "updates" \in DOMAIN resp.request.arguments
  /\ DOMAIN resp.request.arguments.updates = {"title", "project_id"}
  /\ tasks["t1"].title = "T3"
  /\ tasks["t1"].project_id = "p1"
  /\ tasks["t1"].created_at = 0

\* the request of the response just sent was made by the owner of its project
C11_ByOwner(r) ==
  /\ r.project_id \in DOMAIN projects
  /\ projects[r.project_id].user_id = r.current_user

C11_Step ==
  (/\ resp'.seq # resp.seq
   /\ resp'.request.tool_name = "create_tasks"
   /\ fault' > 0)
  => LET r == resp'.request
         items == r.arguments.tasks
         created == DOMAIN tasks' \ DOMAIN tasks
     IN /\ resp'.status >= 400
        /\ ~resp'.success
        /\ \A t \in DOMAIN tasks : t \in DOMAIN tasks' /\ tasks'[t] = tasks[t]
        /\ created = {NewId(nextId + n) : n \in 1..(fault' - 1)}
        /\ Cardinality(created) = fault' - 1
        /\ \A n \in 1..(fault' - 1) :
             LET t == tasks'[NewId(nextId + n)] IN
             /\ t.project_id = r.project_id
             /\ t.title = (IF "title" \in DOMAIN items[n] THEN items[n].title
                           ELSE "Untitled Task")
             /\ t.status = "todo"

\* C11: when the creation of item N of a create_tasks batch fails, the call
\* reports an error and the new tasks in the store are exactly those of
\* items 1..N-1, in order; none of them is rolled back and no task that was
\* there before is changed.
C11_PartialBatchRemains == [][C11_Step]_vars

C11_Witness ==
  /\ fault = 2
  /\ resp.status = 500
  /\ resp.request.tool_name = "create_tasks"
  /\ Len(resp.request.arguments.tasks) = 2
  /\ clock = 1
  /\ DOMAIN tasks = DOMAIN SeedTasks \cup {NewId(1)}

C12_Step ==
  (/\ resp'.seq # resp.seq
   /\ resp'.request.tool_name = "create_tasks"
   /\ C11_ByOwner(resp'.request)
   /\ fault' = 0)
  => LET tasks_data == Get(resp'.request.arguments, "tasks", <<>>)
         titled == /\ Len(tasks_data) > 0
                   /\ \A n \in 1..Len(tasks_data) : "title" \in DOMAIN tasks_data[n]
     IN /\ resp'.status = 200 => titled
        /\ ~titled => /\ resp'.status = 400
                      /\ ~resp'.success
                      /\ tasks' = tasks

\* C12: create_tasks succeeds only when its tasks argument is a non-empty
\* list in which every item has a title; with an empty or absent list, or
\* with an item that has no title, it fails with a missing-argument error
\* (400) and creates no task.
C12_TitleRequired == [][C12_Step]_vars

C13_Step ==
  (/\ resp'.seq # resp.seq
   /\ resp'.request.tool_name \in {"create_document", "create_mockup"}
   /\ C11_ByOwner(resp'.request)
   /\ "name" \notin DOMAIN resp'.request.arguments)
  => /\ resp'.status = 400
     /\ ~resp'.success
     /\ files' = files

\* C13: a create_document or create_mockup invocation whose arguments hold
\* no name does not succeed: it fails with a missing-required-argument error
\* (400) and persists no file.
C13_NameRequired == [][C13_Step]_vars

C14_KnownTools ==
  {"create_document", "create_mockup", "create_tasks", "modify_task", "modify_document"}

C14_Step ==
  (/\ resp'.seq # resp.seq
   /\ resp'.request.tool_name \notin C14_KnownTools
   /\ C11_ByOwner(resp'.request))
  => /\ resp'.status = 400
     /\ ~resp'.success
     /\ resp'.detail = <<"Unknown tool", resp'.request.tool_name>>
     /\ files' = files
     /\ tasks' = tasks
     /\ projects' = projects

\* C14: an execute-tool request, made by the owner of its project, whose
\* tool_name is none of create_document, create_mockup, create_tasks,
\* modify_task, modify_document fails with the unknown-tool error (400) and
\* leaves every file, task and project record unchanged.
C14_UnknownToolRejected == [][C14_Step]_vars

C14_Witness ==
  /\ resp.status = 400
  /\ resp.request.tool_name = "delete_task"
  /\ resp.request.project_id = "p1"
  /\ resp.request.current_user = "u1"
  /\ clock = 2
  /\ files # SeedFiles

(***************************************************************************)
(* Properties of share links and delete_project                            *)
(***************************************************************************)
\* the ids of the files a list_shared_files response returns
C23_Returned == {resp'.result[i].id : i \in 1..Len(resp'.result)}

C23_Step ==
  (/\ resp'.seq # resp.seq
   /\ resp'.request.tool_name = "list_shared_files"
   /\ resp'.request.arguments.token \in DOMAIN share_links)
  => LET link == share_links[resp'.request.arguments.token]
         allow_files ==
           IF "allow_files" \in DOMAIN link.permissions THEN link.permissions.allow_files
           ELSE <<>>
     IN (link.type = "view" /\ link.status = "active" /\ Len(allow_files) > 0)
        => /\ resp'.status = 200
           /\ C23_Returned
                = {f \in DOMAIN files :
                     /\ files[f].project_id = link.project_id
                     /\ \E i \in 1..Len(allow_files) : allow_files[i] = f}
           /\ Len(resp'.result) = Cardinality(C23_Returned)
           /\ \A i \in 1..Len(resp'.result) :
                resp'.result[i].content = files[resp'.result[i].id].content

\* C23: for an active view share link whose permissions have a non-empty
\* allow_files list, list_shared_files returns exactly the files of the
\* linked project whose ids are in allow_files, each once: a file of the
\* project that is not listed, or a listed file of another project, is
\* never returned, also when allow_all_files is set.
C23_OnlyAllowedFiles == [][C23_Step]_vars

C23_Witness ==
  /\ resp.status = 200
  /\ resp.request.tool_name = "list_shared_files"
  /\ resp.request.arguments.token \in DOMAIN share_links
  /\ LET link == share_links[resp.request.arguments.token] IN
     /\ link.type = "view"
     /\ link.project_id = "p1"
     /\ "allow_all_files" \in DOMAIN link.permissions
     /\ link.permissions.allow_all_files
     /\ "allow_files" \in DOMAIN link.permissions
     /\ link.permissions.allow_files = <<"f1", "f2">>
  /\ Len(resp.result) = 1
  /\ resp.result[1].id = "f1"
  /\ files["f3"].project_id = "p1"
  /\ files["f2"].project_id = "p2"

C29_Step ==
  (/\ resp'.seq # resp.seq
   /\ resp'.request.tool_name = "delete_project"
   /\ resp'.status = 200)
  => /\ resp'.request.project_id \notin DOMAIN projects'
     /\ \A f \in DOMAIN files' : files'[f].project_id # resp'.request.project_id
     /\ \A t \in DOMAIN tasks' : tasks'[t].project_id # resp'.request.project_id

\* C29: after delete_project succeeds for a project, the store holds no
\* file and no task whose project_id is that project.
C29_DeleteProjectCascades == [][C29_Step]_vars

(***************************************************************************)
(* Properties of invites and collaborators                                 *)
(***************************************************************************)
\* a sharing request is answered in this step
C24_Answered(op) ==
  /\ resp'.seq # resp.seq
  /\ resp'.request.tool_name = op

\* accept_invite answers 200 only for a user who is a collaborator of the
\* invite's project when the answer is given
C24_Accepted ==
  (C24_Answered("accept_invite") /\ resp'.status = 200) =>
    LET token == resp'.request.arguments.token
        project_id == share_links[token].project_id
    IN resp'.request.current_user \in projects'[project_id].collaborators

\* list_projects returns every project the user is a collaborator of
C24_Listed ==
  C24_Answered("list_projects") =>
    \A p \in DOMAIN projects :
      resp'.request.current_user \in projects[p].collaborators =>
        \E i \in 1..Len(resp'.result) : resp'.result[i].id = p

\* update_project of a collaborator succeeds, stores the update and returns it
C24_Updated ==
  C24_Answered("update_project") =>
    LET project_id == resp'.request.project_id
        updates == resp'.request.arguments.updates
    IN resp'.request.current_user \in projects[project_id].collaborators =>
         /\ resp'.status = 200
         /\ \A k \in DOMAIN updates \cap {"name", "tags"} :
              /\ projects'[project_id][k] = updates[k]
              /\ resp'.result[k] = updates[k]

\* C24: after the owner creates an invite and a user accepts its token, the
\* user is a collaborator of the project: the project is in the user's
\* list_projects and the user's update_project on it succeeds and is stored.
C24_CollaboratorAfterAccept == [][C24_Accepted /\ C24_Listed /\ C24_Updated]_vars

\* u2 joined p1 through an invite of the owner and has updated the project
C24_Witness ==
  /\ resp.status = 200
  /\ resp.request.tool_name = "update_project"
  /\ resp.request.current_user = "u2"
  /\ accepting["u2"].joined \in DOMAIN share_links
  /\ share_links[accepting["u2"].joined].created_by = "u1"
  /\ share_links[accepting["u2"].joined].status = "accepted"
  /\ "u2" \in projects["p1"].collaborators
  /\ projects["p1"].tags = <<"t">>

\* the users added to the collaborators through the token
C27_JoinedThrough(token) == {u \in Invitees : accepting[u].joined = token}

\* C27: under any interleaving of accept_invite requests of different users
\* with the same token, at most one user is added to the collaborators
\* through the token, and once a user has joined through it and the request
\* has returned the token is no longer active.
C27_OneJoinPerToken ==
  \A token \in DOMAIN share_links :
    /\ Cardinality(C27_JoinedThrough(token)) <= 1
    /\ \A u \in C27_JoinedThrough(token) :
         accepting[u].pc = "idle" => share_links[token].status # "active"

\* C28: each email in a project's pending_invites has at least one invite of
\* that project with that target_email whose status is active.
C28_PendingHasActiveInvite ==
  \A p \in DOMAIN projects :
    \A email \in projects[p].pending_invites :
      \E token \in DOMAIN share_links :
        /\ share_links[token].project_id = p
        /\ share_links[token].type = "invite"
        /\ share_links[token].target_email = email
        /\ share_links[token].status = "active"

(***************************************************************************)
(* Properties of the tokens                                                *)
(***************************************************************************)
\* C30: token types are not interchangeable: get_current_user authenticates
\* only with a token of type access and rejects a refresh token, and
\* verify_refresh_token accepts only a token of type refresh and rejects an
\* access token.
C30_TypesNotInterchangeable ==
  /\ (call.fn = "get_current_user" /\ call.ret.ok) => call.token.payload["type"] = "access"
  /\ (call.fn = "verify_refresh_token" /\ call.ret.ok) => call.token.payload["type"] = "refresh"
====
